---------------------------- MODULE Spec2Model ----------------------------
(***************************************************************************)
(* Trading-signal-agent: the signal decision engine (SignalEngine.js), the *)
(* backtest replay (backtest.js) and the outcome resolvers.                *)
(*                                                                         *)
(* Numbers.  Prices, ATR and the other price-like quantities are integers  *)
(* in units of 0.001; the input sets keep every product the code forms     *)
(* (x 2.0, x 2.5, x 1.5, x 0.01) exact.  Oscillators (RSI, Stochastic,      *)
(* ADX, CCI) are integers.  minRR and riskReward are in hundredths (1.5 is *)
(* 150).  Bar timestamps are in minutes, the wall clock is in hours.       *)
(***************************************************************************)
EXTENDS Integers, Sequences, FiniteSets, TLC

VARIABLES
  \* --- one call of SignalEngine.generateSignal ---
  epc,        \* "ready" before the call, "done" after it
  esymbol,    \* the symbol argument
  eself,      \* this.minConfluence, this.minRR
  eind,       \* the IndicatorSnapshot argument
  ectx,       \* the context argument
  emom,       \* the momentum argument
  enow,       \* what Date.now() returns during the call
  edecision,  \* action, confidence, counts and lists when the decision logic
              \* is done, before the context adjustments and the later guards
  esignal     \* the returned object

evars == <<epc, esymbol, eself, eind, ectx, emom, enow, edecision, esignal>>

\* one outcome resolution: the signal, the candles, which routine ran, its result
VARIABLES opc, osignal, ocandles, osignalIndex, ofn, oresult

ovars == <<opc, osignal, ocandles, osignalIndex, ofn, oresult>>

\* two backtest replays side by side: each run's loop state, and the wall
\* clock (hours) each run reads
VARIABLES runA, runB, nowA, nowB

rvars == <<runA, runB, nowA, nowB>>

\* one use of SRDetector: the arrays and ATR findSR is given, the swings, the
\* clusters clusterLevels makes of them, clusterLevels applied again to those
\* clusters, and what findSR returns
VARIABLES spc, shighs, slows, scloses, satr, sswings, sclusters, sagain, sresult

svars == <<spc, shighs, slows, scloses, satr, sswings, sclusters, sagain, sresult>>

\* one analyzeMomentum call: the stochastic and RSI histories of its
\* indicators, and the momentum it returns
VARIABLES mpc, mstochHistory, mrsiHistory, mmomentum

mvars == <<mpc, mstochHistory, mrsiHistory, mmomentum>>

\* the engine's candle store under a few operations: the windows by symbol,
\* the windows before the last operation, the last operation, and how many
\* operations there have been
VARIABLES kstore, kbefore, kop, kops

kvars == <<kstore, kbefore, kop, kops>>

\* the live agent for one symbol: the wall clock (minutes), MT5_ENABLED, how
\* many polls have delivered, the market data service's buffer, and the
\* agent (the engine's window, lastSignals, the processCandle calls and
\* where each one stands, the signals sent, the analysis calls made)
VARIABLES lnow, lmt5, lfetches, lbuffer, agent

lvars == <<lnow, lmt5, lfetches, lbuffer, agent>>

\* one sequence of qualifying signals put through the live dispatcher's
\* filter and through the backtest's: the signals, and what each accepts
VARIABLES tpc, tsignals, tlive, tbacktest

tvars == <<tpc, tsignals, tlive, tbacktest>>

\* configuration: the command line of the backtest, the constants parsed
\* from it, the config object given to the constructor, the engine built,
\* and whether a signal passed the confidence threshold
VARIABLES cpc, cargv, cconst, cconfig, cself, crecorded

cvars == <<cpc, cargv, cconst, cconfig, cself, crecorded>>

\* a whole backtest: the position in runBacktest, the outcome of each of the
\* three fetches, the replay's run, the wall clock, the exit code and
\* whether the report file was written
VARIABLES fpc, ffetch, frun, fnow, fexit, freport

fvars == <<fpc, ffetch, frun, fnow, fexit, freport>>

\* the win-rate tracker: its signals, the wall clock (minutes), the last
\* call made on it and how many calls there have been
VARIABLES wsignals, wnow, wlast, wops

wvars == <<wsignals, wnow, wlast, wops>>

\* the market data service's API calls: the rate-limit fields, each
\* poller's position in its poll, how many requests were issued since
\* lastMinuteReset was last set, and how many more requests will fail
VARIABLES minuteCallCount, lastMinuteReset, apiCreditsDaily, pollers, windowRequests, failuresLeft

avars == <<minuteCallCount, lastMinuteReset, apiCreditsDaily, pollers, windowRequests, failuresLeft>>

vars == <<evars, ovars, rvars, svars, mvars, kvars, lvars, tvars, cvars, fvars, wvars, avars>>

\* what each part of the system leaves alone
exceptEngine == <<ovars, rvars, svars, mvars, kvars, lvars, tvars, cvars, fvars, wvars, avars>>
exceptOutcome == <<evars, rvars, svars, mvars, kvars, lvars, tvars, cvars, fvars, wvars, avars>>
exceptReplay == <<evars, ovars, svars, mvars, kvars, lvars, tvars, cvars, fvars, wvars, avars>>
exceptLevels == <<evars, ovars, rvars, mvars, kvars, lvars, tvars, cvars, fvars, wvars, avars>>
exceptMomentum == <<evars, ovars, rvars, svars, kvars, lvars, tvars, cvars, fvars, wvars, avars>>
exceptStore == <<evars, ovars, rvars, svars, mvars, lvars, tvars, cvars, fvars, wvars, avars>>
exceptLive == <<evars, ovars, rvars, svars, mvars, kvars, tvars, cvars, fvars, wvars, avars>>
exceptTiming == <<evars, ovars, rvars, svars, mvars, kvars, lvars, cvars, fvars, wvars, avars>>
exceptConfig == <<evars, ovars, rvars, svars, mvars, kvars, lvars, tvars, fvars, wvars, avars>>
exceptFetch == <<evars, ovars, rvars, svars, mvars, kvars, lvars, tvars, cvars, wvars, avars>>

-----------------------------------------------------------------------------
(* Helpers for the JavaScript the code uses.                               *)

Cond(b, s) == IF b THEN <<s>> ELSE <<>>

\* Math.max(...s), Math.min(...s)
SeqMax(s) == CHOOSE m \in { s[i] : i \in 1..Len(s) } : \A i \in 1..Len(s) : s[i] <= m

SeqMin(s) == CHOOSE m \in { s[i] : i \in 1..Len(s) } : \A i \in 1..Len(s) : s[i] >= m

Min2(a, b) == IF a < b THEN a ELSE b
Max2(a, b) == IF a > b THEN a ELSE b
Abs(x) == IF x < 0 THEN 0 - x ELSE x

\* arr.slice(0, -1)
ButLast(s) == SubSeq(s, 1, Len(s) - 1)

\* arr.slice(-n)
LastN(s, n) == IF Len(s) <= n THEN s ELSE SubSeq(s, Len(s) - n + 1, Len(s))

\* Math.round(c * num / 100) for c >= 0: round half up.
RoundPct(c, num) == (c * num + 50) \div 100

\* Math.round(confidence * 1.15).  1.15 is not a binary fraction: for 50 and
\* 90 the double product falls just below the half and rounds down.
Round115(c) == IF c \in {50, 90} THEN RoundPct(c, 115) - 1 ELSE RoundPct(c, 115)

\* a / b < n / d for d > 0, with JavaScript's division by zero (NaN compares
\* false, +/-Infinity as expected).
RatioLT(a, b, n, d) ==
  IF b > 0 THEN a * d < n * b
  ELSE IF b < 0 THEN a * d > n * b
  ELSE a < 0

RatioGT(a, b, n, d) ==
  IF b > 0 THEN a * d > n * b
  ELSE IF b < 0 THEN a * d < n * b
  ELSE a > 0

\* parseFloat((reward / risk).toFixed(2)), in hundredths, for risk > 0.
Fixed2(reward, risk) == (reward * 200 + risk) \div (2 * risk)

-----------------------------------------------------------------------------
(* SignalEngine.generateSignal, in the order of the code.                  *)

NoSignal == [isNull |-> TRUE]

\* --- strong events ---
emaBullCross(ind) == ind.ema9 > ind.ema21 /\ ind.ema9Prev <= ind.ema21Prev
emaBearCross(ind) == /\ ~emaBullCross(ind)
                     /\ ind.ema9 < ind.ema21 /\ ind.ema9Prev >= ind.ema21Prev

macdBullCross(ind) == /\ ind.macd.has /\ ind.macdPrev.has
                      /\ ind.macd.MACD > ind.macd.signal
                      /\ ind.macdPrev.MACD <= ind.macdPrev.signal
macdBearCross(ind) == /\ ind.macd.has /\ ind.macdPrev.has
                      /\ ~macdBullCross(ind)
                      /\ ind.macd.MACD < ind.macd.signal
                      /\ ind.macdPrev.MACD >= ind.macdPrev.signal

stochBullCross(ind) == /\ ind.stoch.has /\ ind.stochPrev.has
                       /\ ind.stoch.k < 20 /\ ind.stoch.k > ind.stoch.d
                       /\ ind.stochPrev.k <= ind.stochPrev.d
stochBearCross(ind) == /\ ind.stoch.has /\ ind.stochPrev.has
                       /\ ~stochBullCross(ind)
                       /\ ind.stoch.k > 80 /\ ind.stoch.k < ind.stoch.d
                       /\ ind.stochPrev.k >= ind.stochPrev.d

buyStrong(ind, momentum) ==
     Cond(emaBullCross(ind), "EMA 9/21 bullish crossover")
  \o Cond(macdBullCross(ind), "MACD bullish crossover")
  \o Cond(stochBullCross(ind) /\ momentum.stochPersistence # "OVERSOLD_PERSISTENT",
          "Stochastic bullish crossover (oversold)")

sellStrong(ind, momentum) ==
     Cond(emaBearCross(ind), "EMA 9/21 bearish crossover")
  \o Cond(macdBearCross(ind), "MACD bearish crossover")
  \o Cond(stochBearCross(ind) /\ momentum.stochPersistence # "OVERBOUGHT_PERSISTENT",
          "Stochastic bearish crossover (overbought)")

\* --- weak events ---
cciUp(ind) == /\ ind.cci.has /\ ind.cciPrev.has
              /\ ind.cci.v > -100 /\ ind.cciPrev.v <= -100
cciDown(ind) == /\ ind.cci.has /\ ind.cciPrev.has /\ ~cciUp(ind)
                /\ ind.cci.v < 100 /\ ind.cciPrev.v >= 100

rHigh(ind) == SeqMax(ButLast(ind.recentHighs))
rLow(ind) == SeqMin(ButLast(ind.recentLows))

breakoutUp(ind) == ind.price > rHigh(ind) /\ ind.adx.has /\ ind.adx.adx > 22
breakoutDown(ind) == /\ ~breakoutUp(ind)
                     /\ ind.price < rLow(ind) /\ ind.adx.has /\ ind.adx.adx > 22

rsiTruthy(ind) == ind.rsi # 0 /\ ind.rsiPrev # 0
rsiUp(ind) == rsiTruthy(ind) /\ ind.rsi > 30 /\ ind.rsiPrev <= 30
rsiDown(ind) == rsiTruthy(ind) /\ ~rsiUp(ind) /\ ind.rsi < 70 /\ ind.rsiPrev >= 70

buyWeak(ind, momentum) ==
     Cond(stochBullCross(ind) /\ momentum.stochPersistence = "OVERSOLD_PERSISTENT",
          "Stoch bullish crossover (persistent oversold - downgraded)")
  \o Cond(cciUp(ind), "CCI crossing above -100")
  \o Cond(breakoutUp(ind), "Breakout above recent high")
  \o Cond(rsiUp(ind), "RSI exiting oversold")

sellWeak(ind, momentum) ==
     Cond(stochBearCross(ind) /\ momentum.stochPersistence = "OVERBOUGHT_PERSISTENT",
          "Stoch bearish crossover (persistent overbought - downgraded)")
  \o Cond(cciDown(ind), "CCI crossing below 100")
  \o Cond(breakoutDown(ind), "Breakdown below recent low")
  \o Cond(rsiDown(ind), "RSI exiting overbought")

eventSources(ind) ==
     (IF emaBullCross(ind) \/ emaBearCross(ind) THEN {"ema"} ELSE {})
  \cup (IF macdBullCross(ind) \/ macdBearCross(ind) THEN {"macd"} ELSE {})
  \cup (IF stochBullCross(ind) \/ stochBearCross(ind) THEN {"stoch"} ELSE {})
  \cup (IF cciUp(ind) \/ cciDown(ind) THEN {"cci"} ELSE {})
  \cup (IF breakoutUp(ind) \/ breakoutDown(ind) THEN {"breakout"} ELSE {})
  \cup (IF rsiUp(ind) \/ rsiDown(ind) THEN {"rsi"} ELSE {})

\* --- state signals ---
emaAlignBull(ind) == ind.ema9 > ind.ema21 /\ ind.ema21 > ind.ema50
emaAlignBear(ind) == ind.ema9 < ind.ema21 /\ ind.ema21 < ind.ema50
priceAbove(ind) == ind.price > ind.ema21 /\ ind.price > ind.ema50
priceBelow(ind) == ind.price < ind.ema21 /\ ind.price < ind.ema50
macdBullState(ind) == ind.macd.MACD > ind.macd.signal /\ ind.macd.histogram > 0
macdBearState(ind) == ind.macd.MACD < ind.macd.signal /\ ind.macd.histogram < 0
macdBuilding(ind) == /\ ind.macd.histogram > ind.macdPrev.histogram
                     /\ ind.macdPrev.histogram > ind.macdPrev2.histogram
                     /\ ind.macd.histogram > 0
macdSelling(ind) == /\ ind.macd.histogram < ind.macdPrev.histogram
                    /\ ind.macdPrev.histogram < ind.macdPrev2.histogram
                    /\ ind.macd.histogram < 0
\* pB = (price - lower) / (upper - lower)
pBLT(ind, pct) == RatioLT(ind.price - ind.bb.lower, ind.bb.upper - ind.bb.lower, pct, 100)
pBGT(ind, pct) == RatioGT(ind.price - ind.bb.lower, ind.bb.upper - ind.bb.lower, pct, 100)

buyState(ind) ==
  LET src == eventSources(ind) IN
     Cond("ema" \notin src /\ emaAlignBull(ind), "EMA bullish alignment (9>21>50)")
  \o Cond(priceAbove(ind), "Price above EMA 21 & 50")
  \o Cond("macd" \notin src /\ ind.macd.has /\ macdBullState(ind), "MACD bullish")
  \o Cond("macd" \notin src /\ ind.macd.has /\ ind.macdPrev.has /\ ind.macdPrev2.has
            /\ macdBuilding(ind), "MACD momentum building")
  \o Cond(ind.rsi < 35, "RSI oversold")
  \o Cond(ind.rsiPrev # 0 /\ ind.rsi > ind.rsiPrev /\ ind.rsi < 40, "RSI rising from low")
  \o Cond("stoch" \notin src /\ ind.stoch.has /\ ind.stoch.k < 25 /\ ind.stoch.d < 25,
          "Stochastic oversold")
  \o Cond(ind.bb.has /\ pBLT(ind, 10), "Price at lower Bollinger Band")
  \o Cond(ind.adx.has /\ ind.adx.adx > 22 /\ ind.adx.pdi > ind.adx.mdi, "ADX bullish")

sellState(ind) ==
  LET src == eventSources(ind) IN
     Cond("ema" \notin src /\ ~emaAlignBull(ind) /\ emaAlignBear(ind),
          "EMA bearish alignment (9<21<50)")
  \o Cond(~priceAbove(ind) /\ priceBelow(ind), "Price below EMA 21 & 50")
  \o Cond("macd" \notin src /\ ind.macd.has /\ ~macdBullState(ind) /\ macdBearState(ind),
          "MACD bearish")
  \o Cond("macd" \notin src /\ ind.macd.has /\ ind.macdPrev.has /\ ind.macdPrev2.has
            /\ ~macdBuilding(ind) /\ macdSelling(ind), "MACD sell momentum")
  \o Cond(~(ind.rsi < 35) /\ ind.rsi > 65, "RSI overbought")
  \o Cond(ind.rsiPrev # 0 /\ ~(ind.rsi > ind.rsiPrev /\ ind.rsi < 40)
            /\ ind.rsi < ind.rsiPrev /\ ind.rsi > 60, "RSI falling from high")
  \o Cond("stoch" \notin src /\ ind.stoch.has /\ ~(ind.stoch.k < 25 /\ ind.stoch.d < 25)
            /\ ind.stoch.k > 75 /\ ind.stoch.d > 75, "Stochastic overbought")
  \o Cond(ind.bb.has /\ ~pBLT(ind, 10) /\ pBGT(ind, 90), "Price at upper Bollinger Band")
  \o Cond(ind.adx.has /\ ind.adx.adx > 22 /\ ~(ind.adx.pdi > ind.adx.mdi), "ADX bearish")


\* --- conflict detection ---
Conflict(b, blocks, reason) == IF b THEN <<[blocks |-> blocks, reason |-> reason]>> ELSE <<>>

\* const atrValue = ind.atr || currentPrice * 0.01
atrValueOf(ind, currentPrice) == IF ind.atr # 0 THEN ind.atr ELSE currentPrice \div 100

\* const adxValue = ind.adx?.adx || 0
adxValueOf(ind) == IF ind.adx.has THEN ind.adx.adx ELSE 0

movingUp(ind) == \/ ind.price > ind.recentCloses[Len(ind.recentCloses) - 8]
                 \/ ind.price > ind.ema9
movingDown(ind) == \/ ind.price < ind.recentCloses[Len(ind.recentCloses) - 8]
                   \/ ind.price < ind.ema9

conflictsOf(ind, ctx, momentum, currentPrice) ==
  LET src == eventSources(ind)
      atrValue == atrValueOf(ind, currentPrice)
      sr == ctx.sr
      adxValue == adxValueOf(ind)
      rsiNeutral == ind.rsi >= 40 /\ ind.rsi <= 60
      stochNeutral == ind.stoch.has /\ ind.stoch.k >= 35 /\ ind.stoch.k <= 65
      hasExtremeRSI == ind.rsi < 30 \/ ind.rsi > 70
      hasExtremeStoch == ind.stoch.has /\ (ind.stoch.k < 20 \/ ind.stoch.k > 80)
  IN
     Conflict(ind.stoch.has /\ ind.stoch.k < 25, "SELL", "Stoch oversold")
  \o Conflict(ind.stoch.has /\ ind.stoch.k > 75, "BUY", "Stoch overbought")
  \o Conflict(ind.rsi < 30, "SELL", "RSI oversold")
  \o Conflict(ind.rsi > 70, "BUY", "RSI overbought")
  \o Conflict(ind.macd.has /\ "macd" \notin src /\ ind.macd.histogram > 0,
              "SELL", "MACD histogram positive")
  \o Conflict(ind.macd.has /\ "macd" \notin src /\ ind.macd.histogram < 0,
              "BUY", "MACD histogram negative")
  \o Conflict(rsiNeutral /\ stochNeutral, "BOTH", "Neutral momentum")
  \o Conflict(ind.bb.has /\ pBLT(ind, 5), "SELL", "Price at extreme lower BB")
  \o Conflict(ind.bb.has /\ pBGT(ind, 95), "BUY", "Price at extreme upper BB")
  \o Conflict(sr.resistance > 0 /\ sr.resistance - currentPrice >= 0
                /\ sr.resistance - currentPrice < atrValue,
              "BUY", "Too close to resistance")
  \o Conflict(sr.support > 0 /\ currentPrice - sr.support >= 0
                /\ currentPrice - sr.support < atrValue,
              "SELL", "Too close to support")
  \o Conflict(ctx.regime = "RANGING" /\ adxValue < 20
                /\ ~hasExtremeRSI /\ ~hasExtremeStoch,
              "BOTH", "Ranging market")
  \o Conflict(momentum.stochPersistence = "OVERBOUGHT_PERSISTENT",
              "SELL", "Stoch overbought 4+ candles")
  \o Conflict(momentum.stochPersistence = "OVERSOLD_PERSISTENT",
              "BUY", "Stoch oversold 4+ candles")
  \o Conflict(momentum.priceStructure = "BULLISH_STRUCTURE",
              "SELL", "Bullish price structure")
  \o Conflict(momentum.priceStructure = "BEARISH_STRUCTURE",
              "BUY", "Bearish price structure")
  \o Conflict(momentum.bullishCandles >= 3, "SELL", "consecutive bullish candles")
  \o Conflict(momentum.bearishCandles >= 3, "BUY", "consecutive bearish candles")
  \o Conflict(momentum.isMomentumMove /\ movingUp(ind), "SELL", "Large momentum move UP")
  \o Conflict(momentum.isMomentumMove /\ movingDown(ind), "BUY", "Large momentum move DOWN")

\* variant: only the conflicts tagged with the direction itself block it
blockingExact(conflicts, dir) == SelectSeq(conflicts, LAMBDA c : c.blocks = dir)

\* conflicts.filter(c => c.blocks === dir || c.blocks === 'BOTH')
blocking(conflicts, dir) ==
  SelectSeq(conflicts, LAMBDA c : c.blocks = dir \/ c.blocks = "BOTH")

RECURSIVE mapReason(_, _)
mapReason(prefix, cs) ==
  IF cs = <<>> THEN <<>>
  ELSE <<prefix \o Head(cs).reason>> \o mapReason(prefix, Tail(cs))

\* --- decision logic ---
\* variant: the strong bonus added without its cap
baseConfidenceUncapped(confluenceCount, nStrong) ==
  Min2(25 + confluenceCount * 8, 85)
    + (IF nStrong >= 2 THEN 10 ELSE IF nStrong >= 1 THEN 5 ELSE 0)

\* confidence = Math.min(25 + confluenceCount * 8, 85), then the strong bonus
baseConfidence(confluenceCount, nStrong) ==
  LET c == Min2(25 + confluenceCount * 8, 85) IN
  IF nStrong >= 2 THEN Min2(c + 10, 90)
  ELSE IF nStrong >= 1 THEN Min2(c + 5, 88)
  ELSE c

\* the HOLD warnings, by the first branch of the else-if chain that applies
holdWarnings(totalBuyEvents, totalSellEvents, buyHasValidEvent, sellHasValidEvent, buyConflicts, sellConflicts) ==
  IF totalBuyEvents > 0 /\ Len(buyConflicts) > 0
    THEN mapReason("BLOCKED BUY: ", buyConflicts)
  ELSE IF totalSellEvents > 0 /\ Len(sellConflicts) > 0
    THEN mapReason("BLOCKED SELL: ", sellConflicts)
  ELSE IF totalBuyEvents > 0 /\ ~buyHasValidEvent
    THEN <<"Weak event only (need 1 strong or 2+ weak)">>
  ELSE IF totalSellEvents > 0 /\ ~sellHasValidEvent
    THEN <<"Weak event only (need 1 strong or 2+ weak)">>
  ELSE <<>>

\* the decision, from the event, state and conflict lists
decideFrom(self, bS, sS, bW, sW, bSt, sSt, buyConflicts, sellConflicts) ==
  LET totalBuyEvents == Len(bS) + Len(bW)
      totalSellEvents == Len(sS) + Len(sW)
      totalBuy == Len(bS) + Len(bW) + Len(bSt)
      totalSell == Len(sS) + Len(sW) + Len(sSt)
      buyHasValidEvent == Len(bS) >= 1 \/ Len(bW) >= 2
      sellHasValidEvent == Len(sS) >= 1 \/ Len(sW) >= 2
  IN
  IF buyHasValidEvent /\ totalBuy >= self.minConfluence /\ totalBuy > totalSell
       /\ Len(buyConflicts) = 0
  THEN [action |-> "BUY", confluenceCount |-> totalBuy, eventCount |-> totalBuyEvents,
        stateCount |-> Len(bSt), reasons |-> bS \o bW \o bSt,
        confidence |-> baseConfidence(totalBuy, Len(bS)), warnings |-> <<>>]
  ELSE IF sellHasValidEvent /\ totalSell >= self.minConfluence /\ totalSell > totalBuy
       /\ Len(sellConflicts) = 0
  THEN [action |-> "SELL", confluenceCount |-> totalSell, eventCount |-> totalSellEvents,
        stateCount |-> Len(sSt), reasons |-> sS \o sW \o sSt,
        confidence |-> baseConfidence(totalSell, Len(sS)), warnings |-> <<>>]
  ELSE [action |-> "HOLD", confluenceCount |-> 0, eventCount |-> 0, stateCount |-> 0,
        reasons |-> <<>>, confidence |-> 0,
        warnings |-> holdWarnings(totalBuyEvents, totalSellEvents, buyHasValidEvent,
                                  sellHasValidEvent, buyConflicts, sellConflicts)]

decideWith(self, bS, sS, bW, sW, bSt, sSt, conflicts) ==
  decideFrom(self, bS, sS, bW, sW, bSt, sSt,
             blocking(conflicts, "BUY"), blocking(conflicts, "SELL"))

decide(self, ind, ctx, momentum, currentPrice) ==
  decideWith(self, buyStrong(ind, momentum), sellStrong(ind, momentum),
             buyWeak(ind, momentum), sellWeak(ind, momentum),
             buyState(ind), sellState(ind),
             conflictsOf(ind, ctx, momentum, currentPrice))

\* --- the returned objects ---
contextOf(ctx) ==
  [trend |-> ctx.trend, trendStrength |-> ctx.trendStrength, regime |-> ctx.regime,
   session |-> ctx.session, volatility |-> ctx.volatility,
   support |-> ctx.sr.support, resistance |-> ctx.sr.resistance]

holdResult(now, symbol, currentPrice, ind, ctx, momentum, warnings) ==
  [isNull |-> FALSE, symbol |-> symbol, action |-> "HOLD", confidence |-> 0,
   price |-> currentPrice, stopLoss |-> 0, takeProfit |-> 0, riskReward |-> 0,
   reasons |-> <<>>, warnings |-> warnings, context |-> contextOf(ctx),
   confluenceCount |-> 0, eventCount |-> 0, stateCount |-> 0, timestamp |-> now]

\* --- context adjustments ---
againstTrend(action, ctx) ==
  \/ action = "BUY" /\ ctx.trend = "BEARISH"
  \/ action = "SELL" /\ ctx.trend = "BULLISH"

withTrend(action, ctx) ==
  \/ action = "BUY" /\ ctx.trend = "BULLISH" /\ ctx.trendStrength >= 20
  \/ action = "SELL" /\ ctx.trend = "BEARISH" /\ ctx.trendStrength >= 20

withStructure(action, momentum) ==
  \/ action = "BUY" /\ momentum.priceStructure = "BULLISH_STRUCTURE"
  \/ action = "SELL" /\ momentum.priceStructure = "BEARISH_STRUCTURE"

sessionAdjust(confidence, session) ==
  IF session = "OVERLAP" THEN Min2(RoundPct(confidence, 110), 90)
  ELSE IF session = "LONDON" \/ session = "NEW_YORK" THEN Min2(RoundPct(confidence, 105), 90)
  ELSE IF session = "ASIAN" THEN RoundPct(confidence, 85)
  ELSE confidence

\* variant: the penalty against the trend takes a quarter off
againstTrendAdjustQuarter(confidence, action, ctx) ==
  IF againstTrend(action, ctx) THEN RoundPct(confidence, 75) ELSE confidence

againstTrendAdjust(confidence, action, ctx) ==
  IF againstTrend(action, ctx) THEN RoundPct(confidence, 50) ELSE confidence

withTrendAdjust(confidence, action, ctx) ==
  IF withTrend(action, ctx) THEN Min2(Round115(confidence), 90) ELSE confidence

structureAdjust(confidence, action, momentum) ==
  IF withStructure(action, momentum) THEN Min2(RoundPct(confidence, 110), 90) ELSE confidence

volatilityAdjust(confidence, ctx) ==
  IF ctx.volatility = "HIGH" THEN RoundPct(confidence, 90) ELSE confidence

\* the adjustments, in the order the code applies them
adjustedConfidence(d, ctx, momentum) ==
  volatilityAdjust(
    sessionAdjust(
      structureAdjust(
        withTrendAdjust(againstTrendAdjust(d.confidence, d.action, ctx), d.action, ctx),
        d.action, momentum),
      ctx.session),
    ctx)

adjustedReasons(d, ctx, momentum) ==
     d.reasons
  \o Cond(d.action = "BUY" /\ withTrend(d.action, ctx), "With bullish trend")
  \o Cond(d.action = "SELL" /\ withTrend(d.action, ctx), "With bearish trend")
  \o Cond(d.action = "BUY" /\ withStructure(d.action, momentum), "Bullish price structure")
  \o Cond(d.action = "SELL" /\ withStructure(d.action, momentum), "Bearish price structure")
  \o Cond(ctx.session = "OVERLAP", "London/NY overlap")

adjustedWarnings(d, ctx) ==
     d.warnings
  \o Cond(d.action = "BUY" /\ againstTrend(d.action, ctx), "Against bearish trend (-50%)")
  \o Cond(d.action = "SELL" /\ againstTrend(d.action, ctx), "Against bullish trend (-50%)")
  \o Cond(ctx.session = "ASIAN", "Asian session (-15%)")
  \o Cond(ctx.volatility = "HIGH", "High volatility")

\* variant: the block only from a trend strength of 40
strongTrendBlockFrom40(action, ctx) ==
  \/ action = "BUY" /\ ctx.trend = "BEARISH" /\ ctx.trendStrength >= 40
  \/ action = "SELL" /\ ctx.trend = "BULLISH" /\ ctx.trendStrength >= 40

strongTrendBlock(action, ctx) ==
  \/ action = "BUY" /\ ctx.trend = "BEARISH" /\ ctx.trendStrength > 30
  \/ action = "SELL" /\ ctx.trend = "BULLISH" /\ ctx.trendStrength > 30

confidenceFloor == 40

\* variant: the floor check never rejects
belowFloorNever(confidence) == FALSE

belowFloor(confidence) == confidence < confidenceFloor

\* --- SL/TP and R:R ---
\* variant: one multiplier whatever the volatility
slMulFlat(ctx) == 20

\* const slMul = ctx.volatility === 'HIGH' ? 2.5 : 2.0, in tenths
slMulOf(ctx) == IF ctx.volatility = "HIGH" THEN 25 ELSE 20

\* variant: the stop is placed below the price for either direction
stopLossOfBelow(action, currentPrice, atrValue, slMul) ==
  currentPrice - (atrValue * slMul) \div 10

stopLossOf(action, currentPrice, atrValue, slMul) ==
  IF action = "BUY" THEN currentPrice - (atrValue * slMul) \div 10
  ELSE currentPrice + (atrValue * slMul) \div 10

takeProfitOf(action, currentPrice, atrValue, slMul, minRR, sr) ==
  IF action = "BUY"
  THEN LET atrTP == currentPrice + (atrValue * slMul * minRR) \div 1000
           resistanceTP == IF sr.resistance > currentPrice THEN sr.resistance ELSE atrTP
       IN Max2(atrTP, resistanceTP)
  ELSE LET atrTP == currentPrice - (atrValue * slMul * minRR) \div 1000
           supportTP == IF sr.support < currentPrice THEN sr.support ELSE atrTP
       IN Min2(atrTP, supportTP)

riskRewardOf(currentPrice, stopLoss, takeProfit) ==
  LET risk == Abs(currentPrice - stopLoss)
      reward == Abs(takeProfit - currentPrice)
  IN IF risk > 0 THEN Fixed2(reward, risk) ELSE 0

rrTooLow(riskReward, minRR) == riskReward < minRR

\* the guards after the adjustments, and the returned signal
guardedSignal(self, now, symbol, ind, ctx, momentum, currentPrice, d, confidence, stopLoss, takeProfit, riskReward) ==
  IF d.action # "HOLD" /\ strongTrendBlock(d.action, ctx)
    THEN holdResult(now, symbol, currentPrice, ind, ctx, momentum,
                    <<IF d.action = "BUY" THEN "BLOCKED: Strong bearish trend"
                      ELSE "BLOCKED: Strong bullish trend">>)
  ELSE IF d.action # "HOLD" /\ belowFloor(confidence)
    THEN holdResult(now, symbol, currentPrice, ind, ctx, momentum,
                    <<"Confidence too low after adjustments">>)
  ELSE IF d.action # "HOLD" /\ rrTooLow(riskReward, self.minRR)
    THEN holdResult(now, symbol, currentPrice, ind, ctx, momentum, <<"R:R too low">>)
  ELSE
    [isNull |-> FALSE, symbol |-> symbol, action |-> d.action, confidence |-> confidence,
     price |-> currentPrice,
     stopLoss |-> IF d.action = "HOLD" THEN 0 ELSE stopLoss,
     takeProfit |-> IF d.action = "HOLD" THEN 0 ELSE takeProfit,
     riskReward |-> IF d.action = "HOLD" THEN 0 ELSE riskReward,
     reasons |-> IF d.action = "HOLD" THEN d.reasons ELSE adjustedReasons(d, ctx, momentum),
     warnings |-> IF d.action = "HOLD" THEN d.warnings ELSE adjustedWarnings(d, ctx),
     context |-> contextOf(ctx),
     confluenceCount |-> d.confluenceCount, eventCount |-> d.eventCount,
     stateCount |-> d.stateCount, timestamp |-> now]

\* the levels of the decision d, then the guards
levelledSignal(self, now, symbol, ind, ctx, momentum, currentPrice, d, confidence, stopLoss, takeProfit) ==
  guardedSignal(self, now, symbol, ind, ctx, momentum, currentPrice, d, confidence,
                stopLoss, takeProfit, riskRewardOf(currentPrice, stopLoss, takeProfit))

\* the adjustments and levels of the decision d
signalOf(self, now, symbol, ind, ctx, momentum, currentPrice, d) ==
  levelledSignal(self, now, symbol, ind, ctx, momentum, currentPrice, d,
    IF d.action = "HOLD" THEN d.confidence ELSE adjustedConfidence(d, ctx, momentum),
    stopLossOf(d.action, currentPrice, atrValueOf(ind, currentPrice), slMulOf(ctx)),
    takeProfitOf(d.action, currentPrice, atrValueOf(ind, currentPrice), slMulOf(ctx),
                 self.minRR, ctx.sr))

generateSignal(self, now, symbol, ind, ctx, momentum, currentPrice) ==
  signalOf(self, now, symbol, ind, ctx, momentum, currentPrice,
           decide(self, ind, ctx, momentum, currentPrice))

-----------------------------------------------------------------------------
(* SignalEngine.findSR, getContext, analyzeMomentum, calcIndicators,       *)
(* analyze.  A candle is [timestamp, open, high, low, close].              *)

\* candles.map(c => c.close) and its siblings
mapField(candles, f) == [i \in 1..Len(candles) |-> candles[i][f]]

srLookback == 50

\* 1-based positions of rh whose value is a swing high (strictly above the two
\* bars on each side); the loop runs i = 2 .. lb - 3, 0-based.
swingHighs(rh) ==
  { rh[i] : i \in { j \in 3..(Len(rh) - 2) :
        /\ rh[j] > rh[j-1] /\ rh[j] > rh[j-2]
        /\ rh[j] > rh[j+1] /\ rh[j] > rh[j+2] } }

swingLows(rl) ==
  { rl[i] : i \in { j \in 3..(Len(rl) - 2) :
        /\ rl[j] < rl[j-1] /\ rl[j] < rl[j-2]
        /\ rl[j] < rl[j+1] /\ rl[j] < rl[j+2] } }

SetMin(S) == CHOOSE x \in S : \A y \in S : x <= y
SetMax(S) == CHOOSE x \in S : \A y \in S : x >= y

findSR(closes, highs, lows) ==
  LET lb == Min2(srLookback, Len(highs))
      rh == LastN(highs, lb)
      rl == LastN(lows, lb)
      price == closes[Len(closes)]
      above == { v \in swingHighs(rh) : v > price }
      below == { v \in swingLows(rl) : v < price }
  IN [resistance |-> IF above # {} /\ SetMin(above) # 0 THEN SetMin(above) ELSE SeqMax(rh),
      support |-> IF below # {} /\ SetMax(below) # 0 THEN SetMax(below) ELSE SeqMin(rl)]

\* The session bands, as the if/else chain of getContext assigns them.
sessionOfHour(h) ==
  IF h >= 12 /\ h < 16 THEN "OVERLAP"
  ELSE IF h >= 7 /\ h < 16 THEN "LONDON"
  ELSE IF h >= 12 /\ h < 21 THEN "NEW_YORK"
  ELSE IF h >= 23 \/ h < 8 THEN "ASIAN"
  ELSE "OFF_HOURS"

\* new Date().getUTCHours(): the hour of day of the wall clock.
getUTCHours(now) == now % 24

\* highs.slice(-20, -1)
Slice20(s) == SubSeq(s, Max2(1, Len(s) - 19), Len(s) - 1)

getContext(now, ind, closes, highs, lows) ==
  LET ts == (IF ind.price > ind.ema50 THEN 1 ELSE 0)
          + (IF ind.sma200 # 0 /\ ind.price > ind.sma200 THEN 1 ELSE 0)
          + (IF ind.ema9 > ind.ema21 THEN 1 ELSE 0)
          + (IF ind.ema21 > ind.ema50 THEN 1 ELSE 0)
      adxValue == adxValueOf(ind)
      trend == IF adxValue >= 20 /\ ts >= 3 THEN "BULLISH"
               ELSE IF adxValue >= 20 /\ ts <= 1 THEN "BEARISH"
               ELSE "NEUTRAL"
      vol1 == IF ind.atr7 # 0 /\ ind.atrPrev # 0
              THEN (IF ind.atr7 * 10 > 15 * ind.atrPrev THEN "HIGH"
                    ELSE IF ind.atr7 * 10 < 7 * ind.atrPrev THEN "LOW"
                    ELSE "NORMAL")
              ELSE "NORMAL"
      vol2 == IF ind.bb.has /\ RatioLT(ind.bb.upper - ind.bb.lower, ind.bb.middle, 5, 1000)
              THEN "SQUEEZE" ELSE vol1
      h == getUTCHours(now)
      rH == SeqMax(Slice20(highs))
      rL == SeqMin(Slice20(lows))
      regime == IF (ind.price > rH \/ ind.price < rL) /\ adxValue >= 20 THEN "BREAKOUT"
                ELSE IF adxValue >= 25 THEN "TRENDING"
                ELSE "RANGING"
  IN [trend |-> trend,
      trendStrength |-> IF trend = "NEUTRAL" THEN 0 ELSE adxValue,
      volatility |-> vol2,
      session |-> sessionOfHour(h),
      regime |-> regime,
      sr |-> findSR(closes, highs, lows)]

momentumWindow == 8

\* The streak loop: from the most recent candle backward, until the first
\* candle of the other direction (a candle with close <= open is bearish).
RECURSIVE streak(_, _, _)
streak(recent, i, bullish) ==
  IF i < 1 THEN 0
  ELSE IF (recent[i].close > recent[i].open) = bullish
       THEN 1 + streak(recent, i - 1, bullish)
       ELSE 0

countPairs(recent, f, up) ==
  Cardinality({ i \in 3..Len(recent) :
     IF up THEN recent[i][f] > recent[i-1][f] ELSE recent[i][f] < recent[i-1][f] })

RECURSIVE everyK(_, _, _)
everyK(hist, above, level) ==
  IF hist = <<>> THEN TRUE
  ELSE /\ (IF above THEN Head(hist) > level ELSE Head(hist) < level)
       /\ everyK(Tail(hist), above, level)

persistenceWindow == 4

\* persistence read from the last three readings
stochPersistenceOfThree(stochHistory) ==
  IF Len(stochHistory) >= 3
  THEN IF \A i \in (Len(stochHistory) - 2)..Len(stochHistory) : stochHistory[i].k < 25
       THEN "OVERSOLD_PERSISTENT"
       ELSE IF \A i \in (Len(stochHistory) - 2)..Len(stochHistory) : stochHistory[i].k > 75
            THEN "OVERBOUGHT_PERSISTENT"
            ELSE "NONE"
  ELSE "NONE"

stochPersistenceOf(stochHistory) ==
  IF Len(stochHistory) >= persistenceWindow
  THEN LET lastFour == mapField(LastN(stochHistory, persistenceWindow), "k") IN
       IF everyK(lastFour, FALSE, 25) THEN "OVERSOLD_PERSISTENT"
       ELSE IF everyK(lastFour, TRUE, 75) THEN "OVERBOUGHT_PERSISTENT"
       ELSE "NONE"
  ELSE "NONE"

rsiPersistenceOf(rsiHistory) ==
  IF Len(rsiHistory) >= persistenceWindow
  THEN LET lastFour == LastN(rsiHistory, persistenceWindow) IN
       IF everyK(lastFour, FALSE, 40) THEN "LOW_PERSISTENT"
       ELSE IF everyK(lastFour, TRUE, 60) THEN "HIGH_PERSISTENT"
       ELSE "NONE"
  ELSE "NONE"

analyzeMomentum(candles, ind) ==
  LET recent == LastN(candles, momentumWindow)
      n == Len(recent)
      lastBull == recent[n].close > recent[n].open
      hh == countPairs(recent, "high", TRUE)
      lh == countPairs(recent, "high", FALSE)
      hl == countPairs(recent, "low", TRUE)
      ll == countPairs(recent, "low", FALSE)
      moveSize == Abs(recent[n].close - recent[1].open)
      measured == n >= 2 /\ ind.atr # 0
  IN [bullishCandles |-> IF lastBull THEN streak(recent, n, TRUE) ELSE 0,
      bearishCandles |-> IF lastBull THEN 0 ELSE streak(recent, n, FALSE),
      higherHighs |-> hh, higherLows |-> hl, lowerHighs |-> lh, lowerLows |-> ll,
      priceStructure |-> IF hh >= 3 /\ hl >= 3 THEN "BULLISH_STRUCTURE"
                         ELSE IF lh >= 3 /\ ll >= 3 THEN "BEARISH_STRUCTURE"
                         ELSE "NONE",
      stochPersistence |-> stochPersistenceOf(ind.stochHistory),
      rsiPersistence |-> rsiPersistenceOf(ind.rsiHistory),
      \* moveSize / ind.atr, in tenths
      moveSize |-> IF measured THEN (moveSize * 10) \div ind.atr ELSE 0,
      isMomentumMove |-> measured /\ moveSize > 3 * ind.atr]

recentLen == 30

\* calcIndicators: lib holds what the technicalindicators library returns for
\* the arrays (its last values and short histories); the fields the engine
\* itself takes from the arrays are taken here.
calcIndicators(lib, closes, highs, lows, opens) ==
  [lib EXCEPT !.price = closes[Len(closes)],
              !.prevPrice = closes[Len(closes) - 1],
              !.recentHighs = LastN(highs, recentLen),
              !.recentLows = LastN(lows, recentLen),
              !.recentCloses = LastN(closes, recentLen)]

minCandles == 60

\* analyze(symbol): candles is this.candleStore.get(symbol), <<>> when absent.
analyze(self, now, symbol, candles, lib) ==
  IF Len(candles) < minCandles THEN NoSignal
  ELSE LET closes == mapField(candles, "close")
           highs == mapField(candles, "high")
           lows == mapField(candles, "low")
           opens == mapField(candles, "open")
           ind == calcIndicators(lib, closes, highs, lows, opens)
           ctx == getContext(now, ind, closes, highs, lows)
           momentum == analyzeMomentum(candles, ind)
       IN generateSignal(self, now, symbol, ind, ctx, momentum, closes[Len(closes)])

-----------------------------------------------------------------------------
(* The inputs of one generateSignal call.  Each indicator group is drawn   *)
(* from a few readings that make its branches happen; the call is checked  *)
(* on an indicator sweep (every combination of the groups, a plain         *)
(* context) and on a context sweep (a few snapshots, every combination of  *)
(* context, momentum, ATR and configuration).                              *)

RefPrice == 100 * 1000

Flat(n, v) == [i \in 1..n |-> v]

EmaCases ==
  { [ema9 |-> 99900, ema21 |-> 99800, ema50 |-> 99700, ema9Prev |-> 99700, ema21Prev |-> 99800],
    [ema9 |-> 100100, ema21 |-> 100200, ema50 |-> 100300, ema9Prev |-> 100300, ema21Prev |-> 100200],
    [ema9 |-> 99900, ema21 |-> 99800, ema50 |-> 99700, ema9Prev |-> 99850, ema21Prev |-> 99800] }

NoMacd == [has |-> FALSE, MACD |-> 0, signal |-> 0, histogram |-> 0]
Macd(m, sg) == [has |-> TRUE, MACD |-> m, signal |-> sg, histogram |-> m - sg]

MacdCases ==
  { [macd |-> NoMacd, macdPrev |-> NoMacd, macdPrev2 |-> NoMacd],
    [macd |-> Macd(20, 10), macdPrev |-> Macd(10, 12), macdPrev2 |-> Macd(5, 12)],
    [macd |-> Macd(10, 20), macdPrev |-> Macd(12, 10), macdPrev2 |-> Macd(12, 5)],
    [macd |-> Macd(30, 10), macdPrev |-> Macd(20, 10), macdPrev2 |-> Macd(15, 10)] }

NoStoch == [has |-> FALSE, k |-> 0, d |-> 0]
Stoch(k, d) == [has |-> TRUE, k |-> k, d |-> d]

StochCases ==
  { [stoch |-> Stoch(50, 50), stochPrev |-> Stoch(50, 50)],
    [stoch |-> Stoch(30, 30), stochPrev |-> Stoch(30, 30)],
    [stoch |-> Stoch(15, 10), stochPrev |-> Stoch(8, 10)],
    [stoch |-> Stoch(85, 90), stochPrev |-> Stoch(92, 90)] }

RsiCases ==
  { [rsi |-> 45, rsiPrev |-> 44],
    [rsi |-> 32, rsiPrev |-> 29],
    [rsi |-> 68, rsiPrev |-> 71] }

Cci(v) == [has |-> TRUE, v |-> v]

CciCases ==
  { [cci |-> Cci(0), cciPrev |-> Cci(0)],
    [cci |-> Cci(-90), cciPrev |-> Cci(-110)],
    [cci |-> Cci(90), cciPrev |-> Cci(110)] }

NoAdx == [has |-> FALSE, adx |-> 0, pdi |-> 0, mdi |-> 0]
Adx(a, p, m) == [has |-> TRUE, adx |-> a, pdi |-> p, mdi |-> m]

AdxCases == { Adx(0, 0, 0), Adx(15, 20, 10), Adx(28, 30, 10), Adx(28, 10, 30) }

NoBB == [has |-> FALSE, upper |-> 0, middle |-> 0, lower |-> 0]
BB(u, l) == [has |-> TRUE, upper |-> u, middle |-> (u + l) \div 2, lower |-> l]

BBCases == { BB(RefPrice + 1000, RefPrice - 1000), BB(RefPrice + 1940, RefPrice - 60),
             BB(RefPrice + 60, RefPrice - 1940) }

\* recentHighs / recentLows / recentCloses: no breakout, breakout up, breakdown
RecentCases ==
  { [recentHighs |-> Flat(recentLen, RefPrice + 400), recentLows |-> Flat(recentLen, RefPrice - 400)],
    [recentHighs |-> Flat(recentLen, RefPrice - 100), recentLows |-> Flat(recentLen, RefPrice - 400)],
    [recentHighs |-> Flat(recentLen, RefPrice + 400), recentLows |-> Flat(recentLen, RefPrice + 100)] }

\* ATR 0.3, 5.0, and 0 (the engine then falls back to 1% of the price)
AtrCases == { 300, 5000, 0 }

RestOfInd ==
  [price |-> RefPrice, prevPrice |-> RefPrice, sma200 |-> 0, atr7 |-> 0, atrPrev |-> 0,
   recentCloses |-> Flat(recentLen, RefPrice), rsiHistory |-> <<>>, stochHistory |-> <<>>]

MkInd(e, m, s, r, c, a, b, rc, atr) ==
  e @@ m @@ s @@ r @@ c @@ [adx |-> a, bb |-> b, atr |-> atr] @@ rc @@ RestOfInd

Trends == { [trend |-> "NEUTRAL", trendStrength |-> 0],
            [trend |-> "BULLISH", trendStrength |-> 28],
            [trend |-> "BEARISH", trendStrength |-> 28],
            [trend |-> "BULLISH", trendStrength |-> 35],
            [trend |-> "BEARISH", trendStrength |-> 35] }

Sessions == { "OVERLAP", "LONDON", "NEW_YORK", "ASIAN", "OFF_HOURS" }

Volatilities == { "NORMAL", "HIGH", "LOW", "SQUEEZE" }

Regimes == { "RANGING", "TRENDING", "BREAKOUT" }

\* support / resistance: far on both sides, resistance near, support near,
\* both at the price (no swing: the window's extreme is the price itself)
SRCases == { [support |-> RefPrice - 40000, resistance |-> RefPrice + 40000],
             [support |-> RefPrice - 40000, resistance |-> RefPrice + 200],
             [support |-> RefPrice - 200, resistance |-> RefPrice + 40000],
             [support |-> RefPrice - 9000, resistance |-> RefPrice + 9000] }

MkCtx(t, v, s, g, sr) ==
  [trend |-> t.trend, trendStrength |-> t.trendStrength, volatility |-> v,
   session |-> s, regime |-> g, sr |-> sr]

Streaks == { <<1, 0>>, <<0, 1>>, <<3, 0>>, <<0, 4>> }
Structures == { "NONE", "BULLISH_STRUCTURE", "BEARISH_STRUCTURE" }
Persistences == { "NONE", "OVERBOUGHT_PERSISTENT", "OVERSOLD_PERSISTENT" }

MkMom(st, ps, sp, big) ==
  [bullishCandles |-> st[1], bearishCandles |-> st[2],
   higherHighs |-> IF ps = "BULLISH_STRUCTURE" THEN 3 ELSE 0,
   higherLows |-> IF ps = "BULLISH_STRUCTURE" THEN 3 ELSE 0,
   lowerHighs |-> IF ps = "BEARISH_STRUCTURE" THEN 3 ELSE 0,
   lowerLows |-> IF ps = "BEARISH_STRUCTURE" THEN 3 ELSE 0,
   priceStructure |-> ps, stochPersistence |-> sp, rsiPersistence |-> "NONE",
   moveSize |-> IF big THEN 40 ELSE 5, isMomentumMove |-> big]

Symbols == { "XAU/USD", "EUR/USD" }

\* new SignalEngine(config): minConfluence = config.minConfluence || 3,
\* minRR = config.minRR || 1.5
SignalEngine(config) ==
  [minConfluence |-> IF config.minConfluence # 0 THEN config.minConfluence ELSE 3,
   minRR |-> IF config.minRR # 0 THEN config.minRR ELSE 150]

Configs == { [minConfluence |-> 0, minRR |-> 0], [minConfluence |-> 2, minRR |-> 200] }

PlainCtx == MkCtx([trend |-> "NEUTRAL", trendStrength |-> 0], "NORMAL", "LONDON", "TRENDING",
                  [support |-> RefPrice - 40000, resistance |-> RefPrice + 40000])
PlainMom == MkMom(<<1, 0>>, "NONE", "NONE", FALSE)

\* Snapshots of the context sweep: a BUY and a SELL of growing confluence, and
\* two readings with ADX 0 (one quiet, one with oversold oscillators).
ScenarioInds ==
  LET e1 == CHOOSE e \in EmaCases : e.ema9Prev = 99700
      e2 == CHOOSE e \in EmaCases : e.ema9Prev = 100300
      mNo == CHOOSE m \in MacdCases : ~m.macd.has
      mBull == CHOOSE m \in MacdCases : m.macdPrev.MACD = 10
      mBear == CHOOSE m \in MacdCases : m.macdPrev.MACD = 12
      s30 == CHOOSE s \in StochCases : s.stoch.k = 30
      sLo == CHOOSE s \in StochCases : s.stoch.k = 15
      sHi == CHOOSE s \in StochCases : s.stoch.k = 85
      rLo == CHOOSE r \in RsiCases : r.rsi = 32
      rHi == CHOOSE r \in RsiCases : r.rsi = 68
      rMid == CHOOSE r \in RsiCases : r.rsi = 45
      c0 == CHOOSE c \in CciCases : c.cci.v = 0
      cUp == CHOOSE c \in CciCases : c.cci.v = -90
      cDn == CHOOSE c \in CciCases : c.cci.v = 90
      bMid == BB(RefPrice + 1000, RefPrice - 1000)
      rc0 == CHOOSE rc \in RecentCases : rc.recentHighs[1] = RefPrice + 400 /\ rc.recentLows[1] = RefPrice - 400
  IN { <<e1, mNo, s30, rMid, c0, Adx(28, 30, 10), bMid, rc0>>,
       <<e1, mBull, s30, rLo, c0, Adx(28, 30, 10), bMid, rc0>>,
       <<e1, mBull, sLo, rLo, cUp, Adx(28, 30, 10), BB(RefPrice + 1940, RefPrice - 60), rc0>>,
       <<e2, mNo, s30, rMid, c0, Adx(28, 10, 30), bMid, rc0>>,
       <<e2, mBear, sHi, rHi, cDn, Adx(28, 10, 30), BB(RefPrice + 60, RefPrice - 1940), rc0>>,
       <<e1, mNo, s30, rMid, c0, Adx(0, 0, 0), bMid, rc0>>,
       <<e1, mBull, sLo, rLo, cUp, Adx(0, 0, 0), BB(RefPrice + 1940, RefPrice - 60), rc0>> }

PlainSelf == SignalEngine([minConfluence |-> 0, minRR |-> 0])

FarSR == [support |-> RefPrice - 40000, resistance |-> RefPrice + 40000]

WallHours == { 14 }

\* every combination of the indicator groups, a plain context
InitIndicatorSweep ==
  \E e \in EmaCases, m \in MacdCases, s \in StochCases, r \in RsiCases, c \in CciCases,
     a \in AdxCases, b \in BBCases, rc \in RecentCases :
    /\ eind = MkInd(e, m, s, r, c, a, b, rc, 5000)
    /\ ectx = PlainCtx /\ emom = PlainMom /\ eself = PlainSelf /\ esymbol = "XAU/USD"

\* a few snapshots, every combination of trend, session, S/R, ATR, configuration
InitContextSweep ==
  \E sc \in ScenarioInds, atr \in AtrCases, t \in Trends, v \in {"NORMAL", "HIGH"},
     s \in Sessions, sr \in SRCases, ps \in Structures, cfg \in Configs, sym \in Symbols :
    /\ eind = MkInd(sc[1], sc[2], sc[3], sc[4], sc[5], sc[6], sc[7], sc[8], atr)
    /\ ectx = MkCtx(t, v, s, "TRENDING", sr)
    /\ emom = MkMom(<<1, 0>>, ps, "NONE", FALSE)
    /\ eself = SignalEngine(cfg) /\ esymbol = sym

\* a few snapshots, every combination of the momentum readings
InitMomentumSweep ==
  \E sc \in ScenarioInds, v \in Volatilities, g \in Regimes, st \in Streaks,
     ps \in Structures, sp \in Persistences, big \in BOOLEAN :
    /\ eind = MkInd(sc[1], sc[2], sc[3], sc[4], sc[5], sc[6], sc[7], sc[8], 5000)
    /\ ectx = MkCtx([trend |-> "NEUTRAL", trendStrength |-> 0], v, "LONDON", g, FarSR)
    /\ emom = MkMom(st, ps, sp, big)
    /\ eself = PlainSelf /\ esymbol = "XAU/USD"

EngineIdle ==
  /\ epc = "idle" /\ esymbol = "" /\ eself = PlainSelf /\ eind = RestOfInd
  /\ ectx = PlainCtx /\ emom = PlainMom /\ enow = 0
  /\ edecision = NoSignal /\ esignal = NoSignal

OutcomeIdle ==
  /\ opc = "idle" /\ osignal = NoSignal /\ ocandles = <<>> /\ osignalIndex = 0
  /\ ofn = "" /\ oresult = NoSignal

NoRun == [pc |-> "idle"]

ReplayIdle == runA = NoRun /\ runB = NoRun /\ nowA = 0 /\ nowB = 0

LevelsIdle ==
  /\ spc = "idle" /\ shighs = <<>> /\ slows = <<>> /\ scloses = <<>> /\ satr = 0
  /\ sswings = <<>> /\ sclusters = <<>> /\ sagain = <<>> /\ sresult = NoSignal

MomentumIdle ==
  mpc = "idle" /\ mstochHistory = <<>> /\ mrsiHistory = <<>> /\ mmomentum = NoSignal

NoOp == [op |-> "none"]

StoreIdle == kstore = <<>> /\ kbefore = <<>> /\ kop = NoOp /\ kops = 0

\* the rest of the system idle
LiveIdle == lnow = 0 /\ lmt5 = FALSE /\ lfetches = 0 /\ lbuffer = <<>> /\ agent = NoSignal

TimingIdle == tpc = "idle" /\ tsignals = <<>> /\ tlive = <<>> /\ tbacktest = <<>>

\* a JavaScript value of a configuration field: undefined, NaN or a number
Undefined == [t |-> "undefined", n |-> 0]
NaN == [t |-> "NaN", n |-> 0]
Num(k) == [t |-> "number", n |-> k]

\* a command-line argument: absent, or the text after its --name
NoArg == [given |-> FALSE, text |-> <<>>]
Arg(text) == [given |-> TRUE, text |-> text]

ConfigIdle ==
  /\ cpc = "idle" /\ cargv = [confluence |-> NoArg, confidence |-> NoArg]
  /\ cconst = [MIN_CONFLUENCE |-> Undefined, MIN_CONFIDENCE |-> Undefined]
  /\ cconfig = [minConfluence |-> Undefined, minRR |-> Undefined]
  /\ cself = PlainSelf /\ crecorded = FALSE

NoFetch == [m5 |-> "pending", m15 |-> "pending", h1 |-> "pending"]

NoCall == [op |-> "none"]

TrackerIdle == wsignals = <<>> /\ wnow = 0 /\ wlast = NoCall /\ wops = 0

ApiIdle ==
  /\ minuteCallCount = 0 /\ lastMinuteReset = 0 /\ apiCreditsDaily = 0
  /\ pollers = <<>> /\ windowRequests = 0 /\ failuresLeft = 0

FetchIdle ==
  /\ fpc = "idle" /\ ffetch = NoFetch /\ frun = NoRun /\ fnow = 0
  /\ fexit = 0 /\ freport = FALSE

IdleExceptEngine ==
  /\ OutcomeIdle /\ ReplayIdle /\ LevelsIdle /\ MomentumIdle /\ StoreIdle
  /\ LiveIdle /\ TimingIdle /\ ConfigIdle /\ FetchIdle /\ TrackerIdle /\ ApiIdle
IdleExceptOutcome ==
  /\ EngineIdle /\ ReplayIdle /\ LevelsIdle /\ MomentumIdle /\ StoreIdle
  /\ LiveIdle /\ TimingIdle /\ ConfigIdle /\ FetchIdle /\ TrackerIdle /\ ApiIdle
IdleExceptReplay ==
  /\ EngineIdle /\ OutcomeIdle /\ LevelsIdle /\ MomentumIdle /\ StoreIdle
  /\ LiveIdle /\ TimingIdle /\ ConfigIdle /\ FetchIdle /\ TrackerIdle /\ ApiIdle
IdleExceptLevels ==
  /\ EngineIdle /\ OutcomeIdle /\ ReplayIdle /\ MomentumIdle /\ StoreIdle
  /\ LiveIdle /\ TimingIdle /\ ConfigIdle /\ FetchIdle /\ TrackerIdle /\ ApiIdle
IdleExceptMomentum ==
  /\ EngineIdle /\ OutcomeIdle /\ ReplayIdle /\ LevelsIdle /\ StoreIdle
  /\ LiveIdle /\ TimingIdle /\ ConfigIdle /\ FetchIdle /\ TrackerIdle /\ ApiIdle
IdleExceptStore ==
  /\ EngineIdle /\ OutcomeIdle /\ ReplayIdle /\ LevelsIdle /\ MomentumIdle
  /\ LiveIdle /\ TimingIdle /\ ConfigIdle /\ FetchIdle /\ TrackerIdle /\ ApiIdle
IdleExceptLive ==
  /\ EngineIdle /\ OutcomeIdle /\ ReplayIdle /\ LevelsIdle /\ MomentumIdle
  /\ StoreIdle /\ TimingIdle /\ ConfigIdle /\ FetchIdle /\ TrackerIdle /\ ApiIdle
IdleExceptTiming ==
  /\ EngineIdle /\ OutcomeIdle /\ ReplayIdle /\ LevelsIdle /\ MomentumIdle
  /\ StoreIdle /\ LiveIdle /\ ConfigIdle /\ FetchIdle /\ TrackerIdle /\ ApiIdle
IdleExceptConfig ==
  /\ EngineIdle /\ OutcomeIdle /\ ReplayIdle /\ LevelsIdle /\ MomentumIdle
  /\ StoreIdle /\ LiveIdle /\ TimingIdle /\ FetchIdle /\ TrackerIdle /\ ApiIdle
IdleExceptFetch ==
  /\ EngineIdle /\ OutcomeIdle /\ ReplayIdle /\ LevelsIdle /\ MomentumIdle
  /\ StoreIdle /\ LiveIdle /\ TimingIdle /\ ConfigIdle /\ TrackerIdle /\ ApiIdle

InitEngine ==
  /\ IdleExceptEngine
  /\ epc = "ready"
  /\ InitIndicatorSweep \/ InitContextSweep \/ InitMomentumSweep
  /\ enow \in WallHours
  /\ edecision = NoSignal /\ esignal = NoSignal

\* One call generateSignal(symbol, ind, ctx, momentum, ind.price).
GenerateSignal ==
  /\ epc = "ready"
  /\ edecision' = decide(eself, eind, ectx, emom, eind.price)
  /\ esignal' = generateSignal(eself, enow, esymbol, eind, ectx, emom, eind.price)
  /\ epc' = "done"
  /\ UNCHANGED <<esymbol, eself, eind, ectx, emom, enow>>
  /\ UNCHANGED exceptEngine

NextEngine == GenerateSignal

SpecEngine == InitEngine /\ [][NextEngine]_vars

-----------------------------------------------------------------------------
(* Outcome resolution: simulateOutcome (backtest.js), resolveOutcome       *)
(* (resolve_signals) and WinRateTracker._checkSignalResult.                *)
(* An outcome is [isNull, outcome, exitPrice, candlesHeld, hasPnl, pnlR],  *)
(* pnlR in hundredths of R.                                                *)

NoOutcome == [isNull |-> TRUE]

Outcome(o, exit, held, hasPnl, pnl) ==
  [isNull |-> FALSE, outcome |-> o, exitPrice |-> exit, candlesHeld |-> held,
   hasPnl |-> hasPnl, pnlR |-> pnl]

\* Array.prototype.slice(a, b) on a 0-based array held as a 1-based sequence
JsSlice(s, a, b) == SubSeq(s, a + 1, Min2(b, Len(s)))

\* parseFloat((num / den).toFixed(2)) for a signed quotient, in hundredths
SignedFixed2(num, den) ==
  IF num >= 0 THEN Fixed2(num, den) ELSE 0 - Fixed2(0 - num, den)

\* the take-profit / stop-loss tests of one candle
tpHit(action, candle, takeProfit) ==
  IF action = "BUY" THEN candle.high >= takeProfit ELSE candle.low <= takeProfit

slHit(action, candle, stopLoss) ==
  IF action = "BUY" THEN candle.low <= stopLoss ELSE candle.high >= stopLoss

\* variant: stop-loss tested before take-profit inside a candle
scanFromSLFirst(action, takeProfit, stopLoss, fc, i) ==
  LET first == { j \in i..Len(fc) : tpHit(action, fc[j], takeProfit) \/ slHit(action, fc[j], stopLoss) }
      j == CHOOSE x \in first : \A y \in first : x <= y
  IN IF first = {} THEN [hit |-> "NONE", at |-> 0]
     ELSE IF slHit(action, fc[j], stopLoss) THEN [hit |-> "LOSS", at |-> j]
     ELSE [hit |-> "WIN", at |-> j]

\* for (let i = 0; i < futureCandles.length; i++): the first candle, from
\* position i on, that returns; take-profit is tested before stop-loss
RECURSIVE scanFrom(_, _, _, _, _)
scanFrom(action, takeProfit, stopLoss, fc, i) ==
  IF i > Len(fc) THEN [hit |-> "NONE", at |-> 0]
  ELSE IF tpHit(action, fc[i], takeProfit) THEN [hit |-> "WIN", at |-> i]
  ELSE IF slHit(action, fc[i], stopLoss) THEN [hit |-> "LOSS", at |-> i]
  ELSE scanFrom(action, takeProfit, stopLoss, fc, i + 1)

forwardOffset == 48

\* candles.slice(signalIndex + 1, signalIndex + 48)
futureCandlesOf(candles, signalIndex) ==
  JsSlice(candles, signalIndex + 1, signalIndex + forwardOffset)

\* signal is [action, price, stopLoss, takeProfit]
simulateOutcome(signal, candles, signalIndex) ==
  IF signal.action = "HOLD" THEN NoOutcome
  ELSE
    LET futureCandles == futureCandlesOf(candles, signalIndex)
        r == scanFrom(signal.action, signal.takeProfit, signal.stopLoss, futureCandles, 1)
        lastClose == IF Len(futureCandles) > 0 /\ futureCandles[Len(futureCandles)].close # 0
                     THEN futureCandles[Len(futureCandles)].close ELSE signal.price
        risk == Abs(signal.price - signal.stopLoss)
        pnl == IF signal.action = "BUY" THEN lastClose - signal.price
               ELSE signal.price - lastClose
    IN IF r.hit = "WIN" THEN Outcome("WIN", signal.takeProfit, r.at, FALSE, 0)
       ELSE IF r.hit = "LOSS" THEN Outcome("LOSS", signal.stopLoss, r.at, FALSE, 0)
       ELSE Outcome("EXPIRED", lastClose, Len(futureCandles), TRUE, SignedFixed2(pnl, risk))

resolveCount == 48

\* resolve_signals: signal is [action, entry, sl, tp, date], date in minutes
resolveOutcome(signal, candles) ==
  LET signalTime == signal.date
      futureCandles == JsSlice(SelectSeq(candles, LAMBDA c : c.timestamp > signalTime),
                               0, resolveCount)
      branch == IF signal.action = "BUY" THEN "BUY" ELSE "SELL"
      r == scanFrom(branch, signal.tp, signal.sl, futureCandles, 1)
      risk == Abs(signal.entry - signal.sl)
      lastClose == futureCandles[Len(futureCandles)].close
      pnl == IF signal.action = "BUY" THEN lastClose - signal.entry
             ELSE signal.entry - lastClose
  IN IF Len(futureCandles) = 0 THEN Outcome("NO_DATA", 0, 0, FALSE, 0)
     ELSE IF r.hit = "WIN"
       THEN Outcome("WIN", signal.tp, r.at, TRUE, Fixed2(Abs(signal.tp - signal.entry), risk))
     ELSE IF r.hit = "LOSS"
       THEN Outcome("LOSS", signal.sl, r.at, TRUE, 0 - Fixed2(Abs(signal.sl - signal.entry), risk))
     ELSE Outcome("EXPIRED", lastClose, Len(futureCandles), TRUE, SignedFixed2(pnl, risk))

\* WinRateTracker._checkSignalResult(signal, currentPrice, high, low);
\* signal is [action, entryPrice, stopLoss, takeProfit]; null is NoOutcome
checkSignalResult(signal, currentPrice, high, low) ==
  LET candleHigh == IF high # 0 THEN high ELSE currentPrice
      candleLow == IF low # 0 THEN low ELSE currentPrice
      candle == [high |-> candleHigh, low |-> candleLow]
      branch == IF signal.action = "BUY" THEN "BUY" ELSE "SELL"
      risk == Abs(signal.entryPrice - signal.stopLoss)
  IN IF tpHit(branch, candle, signal.takeProfit)
       THEN Outcome("WIN", signal.takeProfit, 0, TRUE,
                    Fixed2(Abs(signal.takeProfit - signal.entryPrice), risk))
     ELSE IF slHit(branch, candle, signal.stopLoss)
       THEN Outcome("LOSS", signal.stopLoss, 0, TRUE,
                    0 - Fixed2(Abs(signal.stopLoss - signal.entryPrice), risk))
     ELSE NoOutcome

\* The resolved signal and the candles after it.  Entry at RefPrice; the
\* candles are quiet except for one candle that touches take-profit,
\* stop-loss or both, and the candle after it.
MaxFwd == 50

FwdLens == {0, 1, 2, 30} \cup ((forwardOffset - 3)..MaxFwd)

SignalIndexes == {0, 2}

BarMinutes == 5

TradeOf(action) ==
  IF action = "BUY"
  THEN [action |-> "BUY", price |-> RefPrice, stopLoss |-> RefPrice - 600, takeProfit |-> RefPrice + 900]
  ELSE [action |-> action, price |-> RefPrice, stopLoss |-> RefPrice + 600, takeProfit |-> RefPrice - 900]

\* kind: "quiet", "up" (high reaches the upper level), "down" (low reaches
\* the lower level), "both"
Bar(kind, idx, close) ==
  [timestamp |-> BarMinutes * idx, open |-> RefPrice,
   high |-> IF kind \in {"up", "both"} THEN RefPrice + 900 ELSE RefPrice + 100,
   low |-> IF kind \in {"down", "both"} THEN RefPrice - 900 ELSE RefPrice - 100,
   close |-> close]

\* signalIndex + 1 candles up to the signal's, then n forward candles; the
\* forward candle at position p has kind k1, the next one kind k2
Series(signalIndex, n, p, k1, k2, close) ==
  [i \in 1..(signalIndex + 1 + n) |->
     LET f == i - (signalIndex + 1)
     IN IF f = p THEN Bar(k1, i - 1, close)
        ELSE IF f = p + 1 /\ p > 0 THEN Bar(k2, i - 1, close)
        ELSE Bar("quiet", i - 1, close)]

InitOutcome ==
  /\ IdleExceptOutcome
  /\ opc = "ready" /\ ofn = "" /\ oresult = NoOutcome
  /\ \E action \in {"BUY", "SELL"}, si \in SignalIndexes, n \in FwdLens,
        close \in {RefPrice + 50, RefPrice - 50} :
       /\ osignal = TradeOf(action)
       /\ osignalIndex = si
       /\ \/ ocandles = Series(si, n, 0, "quiet", "quiet", close)
          \/ \E p \in 1..n, k1 \in {"up", "down", "both"}, k2 \in {"quiet", "up", "down"} :
               ocandles = Series(si, n, p, k1, k2, close)

\* backtest.js: simulateOutcome(signal, candles5m, i)
SimulateOutcome ==
  /\ opc = "ready"
  /\ oresult' = simulateOutcome(osignal, ocandles, osignalIndex)
  /\ ofn' = "simulateOutcome" /\ opc' = "done"
  /\ UNCHANGED <<osignal, ocandles, osignalIndex>>
  /\ UNCHANGED exceptOutcome

\* resolve_signals: resolveOutcome(signal, candles), the signal dated at its bar
ResolveOutcome ==
  /\ opc = "ready"
  /\ oresult' = resolveOutcome([action |-> osignal.action, entry |-> osignal.price,
                                sl |-> osignal.stopLoss, tp |-> osignal.takeProfit,
                                date |-> ocandles[osignalIndex + 1].timestamp], ocandles)
  /\ ofn' = "resolveOutcome" /\ opc' = "done"
  /\ UNCHANGED <<osignal, ocandles, osignalIndex>>
  /\ UNCHANGED exceptOutcome

\* WinRateTracker.updatePrice on the first candle after the signal:
\* _checkSignalResult(signal, close, high, low)
CheckSignalResult ==
  /\ opc = "ready"
  /\ Len(ocandles) > osignalIndex + 1
  /\ LET c == ocandles[osignalIndex + 2]
     IN oresult' = checkSignalResult([action |-> osignal.action, entryPrice |-> osignal.price,
                                      stopLoss |-> osignal.stopLoss,
                                      takeProfit |-> osignal.takeProfit],
                                     c.close, c.high, c.low)
  /\ ofn' = "_checkSignalResult" /\ opc' = "done"
  /\ UNCHANGED <<osignal, ocandles, osignalIndex>>
  /\ UNCHANGED exceptOutcome

NextOutcome == SimulateOutcome \/ ResolveOutcome \/ CheckSignalResult

SpecOutcome == InitOutcome /\ [][NextOutcome]_vars

-----------------------------------------------------------------------------
(* backtest.js: runBacktest.  A run is a record of the loop's state:       *)
(* candles5m, candles15m, candles1h (the fetched series), candleStore and  *)
(* currentCandleTime (the engine), handed15m and handed1h (the bars passed *)
(* to loadMTFCandles / addMTFCandle and loadMacroCandles / addMacroCandle, *)
(* in order), i, last15mIndex, last1hIndex, lastSignalTime, recentSignals, *)
(* results, totalCandles, totalSignals, and signal (what analyze returned  *)
(* at the last iteration; analysed tells whether it was called).           *)
(* Bar timestamps are in minutes.                                          *)

SYMBOL == "XAU/USD"

MIN_CONFIDENCE == 60

MIN_CONFLUENCE == 3

warmupCandles == 110

cooldownMs == 15

clusterWindow == 180

maxSameDirectionIn3h == 2

maxStore == 300

\* addCandle that evicts as soon as the store reaches its capacity
addCandleEarly(store, candle) ==
  IF Len(store) > 0 /\ store[Len(store)].timestamp = candle.timestamp
  THEN [store EXCEPT ![Len(store)] = candle]
  ELSE IF Len(store) + 1 >= maxStore THEN Tail(Append(store, candle)) ELSE Append(store, candle)

\* SignalEngine.addCandle, on the store of the candle's symbol
addCandle(store, candle) ==
  IF Len(store) > 0 /\ store[Len(store)].timestamp = candle.timestamp
  THEN [store EXCEPT ![Len(store)] = candle]
  ELSE LET pushed == Append(store, candle)
       IN IF Len(pushed) > maxStore THEN Tail(pushed) ELSE pushed

\* const warmupTime = candles5m[warmupCandles]?.timestamp || 0
warmupTimeOf(candles5m) ==
  IF Len(candles5m) > warmupCandles THEN candles5m[warmupCandles + 1].timestamp ELSE 0

\* candles.filter(c => c.timestamp <= warmupTime), handed over when not empty
preloadOf(series, warmupTime) == SelectSeq(series, LAMBDA c : c.timestamp <= warmupTime)

\* variant: the feed also hands the bar that opens within the next 15 minutes
feedIndexAhead(series, idx, ts) ==
  LET ahead == { j \in (idx + 1)..Len(series) : series[j].timestamp > ts + 15 }
  IN IF ahead = {} THEN Len(series)
     ELSE (CHOOSE j \in ahead : \A k \in ahead : j <= k) - 1

\* while (idx < series.length && series[idx].timestamp <= candle.timestamp) idx++
RECURSIVE feedIndex(_, _, _)
feedIndex(series, idx, ts) ==
  IF idx < Len(series) /\ series[idx + 1].timestamp <= ts
  THEN feedIndex(series, idx + 1, ts)
  ELSE idx

\* variant: the loop reads one candle ahead
candleAtNext(candles5m, i) == candles5m[Min2(i + 2, Len(candles5m))]

\* const candle = candles5m[i]
candleAt(candles5m, i) == candles5m[i + 1]

\* the state of runBacktest when the loop is entered
startRun(candles5m, candles15m, candles1h) ==
  LET warmupTime == warmupTimeOf(candles5m)
  IN [pc |-> "loop",
      candles5m |-> candles5m, candles15m |-> candles15m, candles1h |-> candles1h,
      self |-> SignalEngine([minConfluence |-> MIN_CONFLUENCE, minRR |-> 0]),
      candleStore |-> <<>>, currentCandleTime |-> 0,
      handed15m |-> preloadOf(candles15m, warmupTime),
      handed1h |-> preloadOf(candles1h, warmupTime),
      lastSignalTime |-> 0, recentSignals |-> <<>>, results |-> <<>>,
      totalCandles |-> 0, totalSignals |-> 0,
      last15mIndex |-> 0, last1hIndex |-> 0,
      i |-> 0, analysed |-> FALSE, signal |-> NoSignal]

\* variant: the cooldown taken as 15 seconds of bar time
inCooldownSeconds(ts, lastSignalTime) == (ts - lastSignalTime) * 60 < cooldownMs

\* the cooldown test: timeDiff < cooldownMs
inCooldown(ts, lastSignalTime) == ts - lastSignalTime < cooldownMs

\* variant: a signal exactly at the window's start is not counted
recentSameDirStrict(recentSignals, action, ts) ==
  SelectSeq(recentSignals, LAMBDA r : r.action = action /\ r.timestamp > ts - clusterWindow)

\* recentSignals.filter(s => s.action === signal.action && s.timestamp >= windowStart)
recentSameDirOf(recentSignals, action, ts) ==
  SelectSeq(recentSignals, LAMBDA r : r.action = action /\ r.timestamp >= ts - clusterWindow)

clusterFull(recentSignals, action, ts) ==
  Len(recentSameDirOf(recentSignals, action, ts)) >= maxSameDirectionIn3h

\* what the engine's gates write into a signal, and the texts runBacktest
\* looks for in them
MtfAligned == "15min MTF aligned"
MtfAgainst == "15min MTF against"
MacroAligned == "1h macro aligned"
MacroAgainst == "1h macro against"

includes(text, part) ==
  \/ part = "15min MTF" /\ text \in {MtfAligned, MtfAgainst}
  \/ part = "1h macro aligned" /\ text = MacroAligned
  \/ part = "1h macro" /\ text \in {MacroAligned, MacroAgainst}

\* list.find(r => r.includes(part)) finds something
finds(list, part) == \E k \in 1..Len(list) : includes(list[k], part)

\* variant: the macro action read for the 15min gate as well
gateActionOfMacro(signal, inReasons, inWarnings) ==
  IF finds(signal.reasons, "1h macro aligned") THEN "BOOSTED"
  ELSE IF finds(signal.warnings, "1h macro") THEN "PENALIZED"
  ELSE "NEUTRAL"

\* macroAction and mtfAction: BOOSTED when a reason mentions the gate,
\* PENALIZED when a warning does, NEUTRAL otherwise
gateActionOf(signal, inReasons, inWarnings) ==
  IF finds(signal.reasons, inReasons) THEN "BOOSTED"
  ELSE IF finds(signal.warnings, inWarnings) THEN "PENALIZED"
  ELSE "NEUTRAL"

\* the record pushed to results
recordOfSimulated(candle, signal, outcome) ==
  [timestamp |-> candle.timestamp, symbol |-> SYMBOL, action |-> signal.action,
   entryPrice |-> signal.price, stopLoss |-> signal.stopLoss,
   takeProfit |-> signal.takeProfit, riskReward |-> signal.riskReward,
   confidence |-> signal.confidence, confluenceCount |-> signal.confluenceCount,
   reasons |-> signal.reasons, context |-> signal.context,
   outcome |-> outcome.outcome, exitPrice |-> outcome.exitPrice,
   candlesHeld |-> outcome.candlesHeld, pnlR |-> outcome.pnlR,
   macroAction |-> gateActionOf(signal, "1h macro aligned", "1h macro"),
   mtfAction |-> gateActionOf(signal, "15min MTF", "15min MTF")]

recordOf(candle, signal, outcome) ==
  LET risk == Abs(signal.price - signal.stopLoss)
      pnlR == IF outcome.outcome = "WIN"
                THEN Fixed2(Abs(outcome.exitPrice - signal.price), risk)
              ELSE IF outcome.outcome = "LOSS"
                THEN 0 - Fixed2(Abs(outcome.exitPrice - signal.price), risk)
              ELSE outcome.pnlR
  IN [timestamp |-> candle.timestamp, symbol |-> SYMBOL, action |-> signal.action,
      entryPrice |-> signal.price, stopLoss |-> signal.stopLoss,
      takeProfit |-> signal.takeProfit, riskReward |-> signal.riskReward,
      confidence |-> signal.confidence, confluenceCount |-> signal.confluenceCount,
      reasons |-> signal.reasons, context |-> signal.context,
      outcome |-> outcome.outcome, exitPrice |-> outcome.exitPrice,
      candlesHeld |-> outcome.candlesHeld, pnlR |-> pnlR,
      macroAction |-> gateActionOf(signal, "1h macro aligned", "1h macro"),
      mtfAction |-> gateActionOf(signal, "15min MTF", "15min MTF")]

\* the part of an iteration every candle goes through: the engine is fed the
\* candle and the 15min and 1h bars up to index n15 and n1h
fedUpTo(run, candle, n15, n1h) ==
  [run EXCEPT !.currentCandleTime = candle.timestamp,
              !.candleStore = addCandle(run.candleStore, candle),
              !.totalCandles = @ + 1,
              !.handed15m = @ \o SubSeq(run.candles15m, run.last15mIndex + 1, n15),
              !.last15mIndex = n15,
              !.handed1h = @ \o SubSeq(run.candles1h, run.last1hIndex + 1, n1h),
              !.last1hIndex = n1h,
              !.i = @ + 1,
              !.pc = IF run.i + 1 < Len(run.candles5m) THEN "loop" ELSE "done",
              !.analysed = FALSE, !.signal = NoSignal]

fed(run, candle) ==
  fedUpTo(run, candle,
          feedIndex(run.candles15m, run.last15mIndex, candle.timestamp),
          feedIndex(run.candles1h, run.last1hIndex, candle.timestamp))

\* the signal passed every filter: its outcome is simulated and recorded
recorded(counted, candle, signal, outcome) ==
  IF outcome.isNull THEN counted
  ELSE [counted EXCEPT
          !.results = Append(@, recordOf(candle, signal, outcome)),
          !.recentSignals = Append(@, [action |-> signal.action,
                                       timestamp |-> candle.timestamp]),
          !.lastSignalTime = candle.timestamp]

\* the filters between engine.analyze and the record
filtered(run, candle, called, signal) ==
  LET counted == [called EXCEPT !.totalSignals = @ + 1]
  IN IF signal.isNull THEN called
     ELSE IF signal.action = "HOLD" THEN called
     ELSE IF ~(signal.confidence >= MIN_CONFIDENCE) THEN counted
     ELSE IF inCooldown(candle.timestamp, run.lastSignalTime) THEN counted
     ELSE IF clusterFull(run.recentSignals, signal.action, candle.timestamp) THEN counted
     ELSE recorded(counted, candle, signal, simulateOutcome(signal, run.candles5m, run.i))

analysed(run, candle, fedRun, signal) ==
  filtered(run, candle, [fedRun EXCEPT !.analysed = TRUE, !.signal = signal], signal)

iterationAt(run, candle, now, lib) ==
  IF run.i < warmupCandles THEN fed(run, candle)
  ELSE analysed(run, candle, fed(run, candle),
                analyze(run.self, now, SYMBOL, addCandle(run.candleStore, candle), lib))

\* one iteration of the loop over candles5m, at index run.i; now is the wall
\* clock the engine reads, lib what the indicator library returns
iteration(run, now, lib) == iterationAt(run, candleAt(run.candles5m, run.i), now, lib)

\* The replayed series.  The warm-up candles are five minutes apart, flat
\* around RefPrice, alternately rising and falling; TailLen candles follow
\* them, the first five minutes later, the others after a gap drawn from Gaps.
TailLen == 3

Gaps == {3, 15, 165, 170}

FlatBar(ts, idx) ==
  [timestamp |-> ts, open |-> IF idx % 2 = 0 THEN RefPrice - 40 ELSE RefPrice + 40,
   high |-> RefPrice + 400, low |-> RefPrice - 400, close |-> RefPrice]

RECURSIVE SumGaps(_, _)
SumGaps(gaps, n) == IF n = 0 THEN 0 ELSE gaps[n] + SumGaps(gaps, n - 1)

\* gaps[j] separates tail candle j + 1 from tail candle j
Candles5m(gaps) ==
  [k \in 1..(warmupCandles + 1 + Len(gaps)) |->
     IF k <= warmupCandles + 1 THEN FlatBar(BarMinutes * (k - 1), k - 1)
     ELSE FlatBar(BarMinutes * warmupCandles + SumGaps(gaps, k - warmupCandles - 1), k - 1)]

GapSeqs == [1..(TailLen - 1) -> Gaps]

\* a higher-timeframe series: one bar every `every` minutes from `from` to
\* one bar past `upto`
Higher(every, from, upto) ==
  [k \in 1..((upto - from) \div every + 2) |-> FlatBar(from + every * (k - 1), 0)]

LastTs(candles) == candles[Len(candles)].timestamp

Candles15m(candles5m) == Higher(15, 495, LastTs(candles5m))

Candles1h(candles5m) == Higher(60, 480, LastTs(candles5m))

\* what the indicator library returns for a window: a bullish crossover
\* snapshot, a bearish one, and one with ADX 0
BuySnap ==
  MkInd([ema9 |-> 99900, ema21 |-> 99800, ema50 |-> 99700, ema9Prev |-> 99700, ema21Prev |-> 99800],
        [macd |-> Macd(20, 10), macdPrev |-> Macd(10, 12), macdPrev2 |-> Macd(5, 12)],
        [stoch |-> Stoch(30, 30), stochPrev |-> Stoch(30, 30)],
        [rsi |-> 32, rsiPrev |-> 29], [cci |-> Cci(0), cciPrev |-> Cci(0)],
        Adx(28, 30, 10), BB(RefPrice + 1000, RefPrice - 1000),
        [recentHighs |-> <<>>, recentLows |-> <<>>], 300)

SellSnap ==
  MkInd([ema9 |-> 100100, ema21 |-> 100200, ema50 |-> 100300, ema9Prev |-> 100300, ema21Prev |-> 100200],
        [macd |-> Macd(10, 20), macdPrev |-> Macd(12, 10), macdPrev2 |-> Macd(12, 5)],
        [stoch |-> Stoch(70, 70), stochPrev |-> Stoch(70, 70)],
        [rsi |-> 68, rsiPrev |-> 71], [cci |-> Cci(0), cciPrev |-> Cci(0)],
        Adx(28, 10, 30), BB(RefPrice + 1000, RefPrice - 1000),
        [recentHighs |-> <<>>, recentLows |-> <<>>], 300)

HoldSnap ==
  MkInd([ema9 |-> 99900, ema21 |-> 99800, ema50 |-> 99700, ema9Prev |-> 99850, ema21Prev |-> 99800],
        [macd |-> NoMacd, macdPrev |-> NoMacd, macdPrev2 |-> NoMacd],
        [stoch |-> Stoch(50, 50), stochPrev |-> Stoch(50, 50)],
        [rsi |-> 45, rsiPrev |-> 44], [cci |-> Cci(0), cciPrev |-> Cci(0)],
        Adx(0, 0, 0), BB(RefPrice + 1000, RefPrice - 1000),
        [recentHighs |-> <<>>, recentLows |-> <<>>], 300)

ReplaySnaps == { BuySnap, SellSnap, HoldSnap }

\* wall-clock hours of a run: 09 (London) and 03 (Asian)
ReplayHours == { 9, 3 }

InitReplay ==
  /\ IdleExceptReplay
  /\ \E gaps \in GapSeqs, mtf \in BOOLEAN :
       LET c5 == Candles5m(gaps)
       IN runA = startRun(c5, IF mtf THEN Candles15m(c5) ELSE <<>>,
                          IF mtf THEN Candles1h(c5) ELSE <<>>)
  /\ nowA \in ReplayHours
  /\ runB = NoRun /\ nowB = 0

\* a loop iteration below the warm-up count: no analysis
WarmupIteration ==
  /\ runA.pc = "loop" /\ runB = NoRun
  /\ runA.i < warmupCandles
  /\ runA' = iteration(runA, nowA, HoldSnap)
  /\ UNCHANGED <<runB, nowA, nowB>> /\ UNCHANGED exceptReplay

\* a loop iteration that calls engine.analyze
AnalysisIteration ==
  /\ runA.pc = "loop" /\ runB = NoRun
  /\ runA.i >= warmupCandles
  /\ \E lib \in ReplaySnaps : runA' = iteration(runA, nowA, lib)
  /\ UNCHANGED <<runB, nowA, nowB>> /\ UNCHANGED exceptReplay

NextReplay == WarmupIteration \/ AnalysisIteration

SpecReplay == InitReplay /\ [][NextReplay]_vars

-----------------------------------------------------------------------------
(* Two replays in lockstep: run B replays run A's series, or that series   *)
(* with the bars after 5min index k altered or removed on one timeframe.   *)
(* The indicator library is a function of the arrays analyze passes to it: *)
(* it returns the same snapshot to both runs when those arrays are equal.  *)

PairTail == 3

PairGaps == {15, 170}

\* the tail candles of a pair are evenly spaced
PairGapSeqs == { [j \in 1..(PairTail - 1) |-> g] : g \in PairGaps }

Variants == {"same", "alter5m", "remove5m", "alter15m", "remove15m", "alter1h", "remove1h"}

\* a bar with other prices at the same timestamp
OtherBar(c) == [c EXCEPT !.high = RefPrice + 900, !.close = RefPrice + 200]

alterAfter(series, ts) ==
  [j \in 1..Len(series) |-> IF series[j].timestamp > ts THEN OtherBar(series[j]) ELSE series[j]]

removeAfter(series, ts) == SelectSeq(series, LAMBDA c : c.timestamp <= ts)

\* run B's series: run A's, changed after the 5min bar of index k
variantRun(variant, k, c5, c15, c1h) ==
  LET ts == c5[k + 1].timestamp
  IN startRun(IF variant = "alter5m" THEN alterAfter(c5, ts)
              ELSE IF variant = "remove5m" THEN removeAfter(c5, ts) ELSE c5,
              IF variant = "alter15m" THEN alterAfter(c15, ts)
              ELSE IF variant = "remove15m" THEN removeAfter(c15, ts) ELSE c15,
              IF variant = "alter1h" THEN alterAfter(c1h, ts)
              ELSE IF variant = "remove1h" THEN removeAfter(c1h, ts) ELSE c1h)

InitPair ==
  /\ IdleExceptReplay
  /\ \E gaps \in PairGapSeqs, variant \in Variants,
        k \in warmupCandles..(warmupCandles + PairTail - 2) :
       LET c5 == Candles5m(gaps)
       IN /\ runA = startRun(c5, Candles15m(c5), Candles1h(c5))
          /\ runB = variantRun(variant, k, c5, Candles15m(c5), Candles1h(c5))
  /\ nowA \in ReplayHours /\ nowB \in ReplayHours

\* the arrays analyze hands to calcIndicators
libInput(candles) ==
  [closes |-> mapField(candles, "close"), highs |-> mapField(candles, "high"),
   lows |-> mapField(candles, "low"), opens |-> mapField(candles, "open")]

libInputAt(run) == libInput(addCandle(run.candleStore, candleAt(run.candles5m, run.i)))

\* both runs make a warm-up iteration
PairWarmup ==
  /\ runA.pc = "loop" /\ runB.pc = "loop"
  /\ runA.i < warmupCandles /\ runB.i < warmupCandles
  /\ runA' = iteration(runA, nowA, HoldSnap)
  /\ runB' = iteration(runB, nowB, HoldSnap)
  /\ UNCHANGED <<nowA, nowB>> /\ UNCHANGED exceptReplay

\* both runs make an iteration that calls analyze
PairAnalysis ==
  /\ runA.pc = "loop" /\ runB.pc = "loop"
  /\ runA.i >= warmupCandles /\ runB.i >= warmupCandles
  /\ \E libA \in ReplaySnaps, libB \in ReplaySnaps :
       /\ libInputAt(runA) = libInputAt(runB) => libA = libB
       /\ runA' = iteration(runA, nowA, libA)
       /\ runB' = iteration(runB, nowB, libB)
  /\ UNCHANGED <<nowA, nowB>> /\ UNCHANGED exceptReplay

\* run B's shorter series is exhausted: run A goes on alone
RestOfA ==
  /\ runA.pc = "loop" /\ runB.pc = "done"
  /\ \E lib \in ReplaySnaps : runA' = iteration(runA, nowA, lib)
  /\ UNCHANGED <<runB, nowA, nowB>> /\ UNCHANGED exceptReplay

NextPair == PairWarmup \/ PairAnalysis \/ RestOfA

SpecPair == InitPair /\ [][NextPair]_vars

-----------------------------------------------------------------------------
(* SRDetector: swings, clusters, scored levels, findSR.  Prices and the    *)
(* ATR are whole numbers of one unit; arrays are 1-based, so bar i of the  *)
(* code is element i + 1.                                                  *)

\* arr.sort((a, b) => key(a) - key(b)), keys[i] the key of seq[i]: stable
sortedBy(seq, keys) ==
  [r \in 1..Len(seq) |->
     seq[CHOOSE i \in 1..Len(seq) :
           Cardinality({ j \in 1..Len(seq) :
                           keys[j] < keys[i] \/ (keys[j] = keys[i] /\ j < i) }) + 1 = r]]

\* the keys of a sort by a field, ascending or descending
ascending(seq, f) == [i \in 1..Len(seq) |-> seq[i][f]]
descending(seq, f) == [i \in 1..Len(seq) |-> 0 - seq[i][f]]

\* arr.slice(0, n)
FirstN(s, n) == IF Len(s) <= n THEN s ELSE SubSeq(s, 1, n)

confirmBars == 2

isSwingHigh(highs, j, bars) ==
  \A k \in 1..bars : ~(highs[j] <= highs[j - k] \/ highs[j] <= highs[j + k])

isSwingLow(lows, j, bars) ==
  \A k \in 1..bars : ~(lows[j] >= lows[j - k] \/ lows[j] >= lows[j + k])

\* the swings bar j adds: its high first, then its low
swingsAt(highs, lows, j) ==
  (IF isSwingHigh(highs, j, confirmBars)
   THEN <<[price |-> highs[j], type |-> "RESISTANCE", index |-> j - 1,
           age |-> Len(highs) - (j - 1)]>>
   ELSE <<>>)
  \o (IF isSwingLow(lows, j, confirmBars)
      THEN <<[price |-> lows[j], type |-> "SUPPORT", index |-> j - 1,
              age |-> Len(highs) - (j - 1)]>>
      ELSE <<>>)

RECURSIVE swingsFrom(_, _, _, _)
swingsFrom(highs, lows, j, swings) ==
  IF j > Len(highs) - confirmBars THEN swings
  ELSE swingsFrom(highs, lows, j + 1, swings \o swingsAt(highs, lows, j))

detectSwings(highs, lows, closes) ==
  swingsFrom(highs, lows, (Len(highs) - Min2(100, Len(highs))) + confirmBars + 1, <<>>)

RECURSIVE sumPrices(_, _)
sumPrices(swings, n) == IF n = 0 THEN 0 ELSE swings[n].price + sumPrices(swings, n - 1)

\* a swing within atr * 0.5 of the first swing of the cluster
withinToleranceOfFirst(swing, currentCluster, atr) ==
  2 * Abs(swing.price - currentCluster[1].price) <= atr

\* |swing.price - clusterCenter| <= atr * 0.5, clusterCenter the mean of the
\* cluster so far
withinTolerance(swing, currentCluster, atr) ==
  2 * Abs(swing.price * Len(currentCluster) - sumPrices(currentCluster, Len(currentCluster)))
    <= atr * Len(currentCluster)

buildCluster(swings) ==
  [price |-> sumPrices(swings, Len(swings)) \div Len(swings),
   type |-> IF 2 * Len(SelectSeq(swings, LAMBDA s : s.type = "RESISTANCE")) >= Len(swings)
            THEN "RESISTANCE" ELSE "SUPPORT",
   touchCount |-> Len(swings),
   minAge |-> SeqMin(mapField(swings, "age")),
   swings |-> swings,
   strength |-> 0]

RECURSIVE clusterFrom(_, _, _, _, _)
clusterFrom(sorted, i, currentCluster, clusters, atr) ==
  IF i > Len(sorted) THEN Append(clusters, buildCluster(currentCluster))
  ELSE IF withinTolerance(sorted[i], currentCluster, atr)
       THEN clusterFrom(sorted, i + 1, Append(currentCluster, sorted[i]), clusters, atr)
       ELSE clusterFrom(sorted, i + 1, <<sorted[i]>>,
                        Append(clusters, buildCluster(currentCluster)), atr)

clusterSorted(sorted, atr) == clusterFrom(sorted, 2, <<sorted[1]>>, <<>>, atr)

clusterLevels(swings, atr) ==
  IF Len(swings) = 0 THEN <<>>
  ELSE clusterSorted(sortedBy(swings, ascending(swings, "price")), atr)

\* bars 5 .. length - 2 of the code that touch the level within 0.3 ATR and
\* close on the side they came from
countBounces(levelPrice, closes, highs, lows, atr) ==
  Cardinality({ j \in 6..(Len(closes) - 1) :
    \/ /\ 10 * lows[j] <= 10 * levelPrice + 3 * atr
       /\ 10 * lows[j] >= 10 * levelPrice - 3 * atr
       /\ closes[j] > levelPrice
    \/ /\ 10 * highs[j] >= 10 * levelPrice - 3 * atr
       /\ 10 * highs[j] <= 10 * levelPrice + 3 * atr
       /\ closes[j] < levelPrice })

\* closes that cross the level and its 0.1 ATR band in one bar
countBreaches(levelPrice, closes, atr) ==
  Cardinality({ j \in 2..Len(closes) :
    \/ /\ 10 * closes[j - 1] < 10 * levelPrice - atr
       /\ 10 * closes[j] > 10 * levelPrice + atr
    \/ /\ 10 * closes[j - 1] > 10 * levelPrice + atr
       /\ 10 * closes[j] < 10 * levelPrice - atr })

recencyBonus(minAge) == IF minAge <= 10 THEN 20 ELSE IF minAge <= 30 THEN 10 ELSE 0

levelScore(cluster, closes, highs, lows, atr) ==
  cluster.touchCount * 10 + recencyBonus(cluster.minAge)
    + countBounces(cluster.price, closes, highs, lows, atr) * 8
    - countBreaches(cluster.price, closes, atr) * 5

scoredCluster(cluster, closes, highs, lows, atr) ==
  [cluster EXCEPT !.strength = Min2(100, Max2(0, levelScore(cluster, closes, highs, lows, atr)))]

byStrength(scored) == sortedBy(scored, descending(scored, "strength"))

scoreLevels(clusters, closes, highs, lows, atr) ==
  byStrength([k \in 1..Len(clusters) |-> scoredCluster(clusters[k], closes, highs, lows, atr)])

NoLevel == [has |-> FALSE]
Level(l) == [has |-> TRUE, level |-> l]

belowPriceOrAt(l, price) == l.price <= price

\* the filters of findSR
belowPrice(l, price) == l.price < price

abovePrice(l, price) == l.price > price

nearestFirstBelow(levels) == sortedBy(levels, descending(levels, "price"))

nearestFirstAbove(levels) == sortedBy(levels, ascending(levels, "price"))

supportsOf(scored, price) ==
  nearestFirstBelow(SelectSeq(scored, LAMBDA l : belowPrice(l, price)))

resistancesOf(scored, price) ==
  nearestFirstAbove(SelectSeq(scored, LAMBDA l : abovePrice(l, price)))

\* supports[0]?.price || fallback
firstPriceOr(levels, fallback) ==
  IF Len(levels) > 0 /\ levels[1].price # 0 THEN levels[1].price ELSE fallback

srResult(supports, resistances, scored, highs, lows) ==
  [support |-> firstPriceOr(supports, SeqMin(LastN(lows, 20))),
   resistance |-> firstPriceOr(resistances, SeqMax(LastN(highs, 20))),
   supports |-> FirstN(supports, 3),
   resistances |-> FirstN(resistances, 3),
   nearestSupport |-> IF Len(supports) > 0 THEN Level(supports[1]) ELSE NoLevel,
   nearestResistance |-> IF Len(resistances) > 0 THEN Level(resistances[1]) ELSE NoLevel,
   allLevels |-> scored]

srFromScored(scored, price, highs, lows) ==
  srResult(supportsOf(scored, price), resistancesOf(scored, price), scored, highs, lows)

srFromClusters(clustered, closes, highs, lows, atr) ==
  srFromScored(scoreLevels(clustered, closes, highs, lows, atr), closes[Len(closes)], highs, lows)

SRDetector_findSR(closes, highs, lows, atr) ==
  srFromClusters(clusterLevels(detectSwings(highs, lows, closes), atr), closes, highs, lows, atr)

\* prices are whole multiples of a unit that every cluster size up to six
\* divides, so the mean of a cluster is exact
PriceUnit == 3 * 4 * 5

SeriesLen == 8
MaxSwings == 4

SRBar(h, l, c) == [high |-> h * PriceUnit, low |-> l * PriceUnit, close |-> c * PriceUnit]

PlainBar == SRBar(12, 10, 11)

BarShapes == { PlainBar, SRBar(14, 10, 13), SRBar(12, 8, 9), SRBar(13, 9, 11) }

LastBars == { PlainBar, SRBar(13, 10, 13), SRBar(12, 9, 9) }

\* two flat bars, then bars of any shape
BarSeries ==
  { <<PlainBar, PlainBar>> \o mid \o <<last>> :
      mid \in [1..(SeriesLen - 3) -> BarShapes], last \in LastBars }

\* ATR values that give tolerances of half a unit, one unit and ten units
SRAtrs == { PriceUnit, 2 * PriceUnit, 20 * PriceUnit }

SwingPrices == { p * PriceUnit : p \in {10, 15, 20, 21, 30, 31} }

swingOf(prices, k) ==
  [price |-> prices[k], type |-> IF k % 2 = 1 THEN "RESISTANCE" ELSE "SUPPORT",
   index |-> k - 1, age |-> k]

SwingLists ==
  UNION { { [k \in 1..n |-> swingOf(prices, k)] : prices \in [1..n -> SwingPrices] } :
          n \in 0..MaxSwings }

\* the clusters of one call, as the swings of another
asSwings(clusters) ==
  [k \in 1..Len(clusters) |->
     [price |-> clusters[k].price, type |-> clusters[k].type, index |-> k - 1,
      age |-> clusters[k].minAge]]

InitSeries ==
  /\ spc = "series"
  /\ \E bars \in BarSeries :
       /\ shighs = mapField(bars, "high")
       /\ slows = mapField(bars, "low")
       /\ scloses = mapField(bars, "close")
  /\ sswings = <<>>

InitSwings ==
  /\ spc = "swings"
  /\ shighs = <<>> /\ slows = <<>> /\ scloses = <<>>
  /\ sswings \in SwingLists

InitLevels ==
  /\ IdleExceptLevels
  /\ (InitSeries \/ InitSwings)
  /\ satr \in SRAtrs
  /\ sclusters = <<>> /\ sagain = <<>> /\ sresult = NoSignal

\* findSR(closes, highs, lows, atr)
FindSR ==
  /\ spc = "series"
  /\ spc' = "found"
  /\ sswings' = detectSwings(shighs, slows, scloses)
  /\ sclusters' = clusterLevels(sswings', satr)
  /\ sresult' = SRDetector_findSR(scloses, shighs, slows, satr)
  /\ UNCHANGED <<shighs, slows, scloses, satr, sagain>> /\ UNCHANGED exceptLevels

\* clusterLevels(swings, atr)
ClusterLevels ==
  /\ spc = "swings"
  /\ spc' = "clustered"
  /\ sclusters' = clusterLevels(sswings, satr)
  /\ UNCHANGED <<shighs, slows, scloses, satr, sswings, sagain, sresult>>
  /\ UNCHANGED exceptLevels

\* clusterLevels again, on the prices of the clusters, with the same ATR
ReCluster ==
  /\ spc \in {"found", "clustered"}
  /\ spc' = "reclustered"
  /\ sagain' = clusterLevels(asSwings(sclusters), satr)
  /\ UNCHANGED <<shighs, slows, scloses, satr, sswings, sclusters, sresult>>
  /\ UNCHANGED exceptLevels

NextLevels == FindSR \/ ClusterLevels \/ ReCluster

SpecLevels == InitLevels /\ [][NextLevels]_vars

-----------------------------------------------------------------------------
(* analyzeMomentum on its own: oscillator histories of every shape.        *)

\* the longest history drawn (calcIndicators keeps the last six readings)
HistLen == 5

\* readings below, at and above the two thresholds of each oscillator
StochReadings == <<20, 25, 75, 80>>
RsiReadings == <<35, 40, 60, 65>>

ReadingChoices == UNION { [1..n -> 1..Len(StochReadings)] : n \in (persistenceWindow - 1)..HistLen }

stochHistoryOf(choice) == [i \in 1..Len(choice) |-> Stoch(StochReadings[choice[i]], 50)]

rsiHistoryOf(choice) == [i \in 1..Len(choice) |-> RsiReadings[choice[i]]]

NeutralChoice == [i \in 1..persistenceWindow |-> 2]

MomentumCandles == [k \in 1..momentumWindow |-> FlatBar(BarMinutes * (k - 1), k - 1)]

InitMomentum ==
  /\ IdleExceptMomentum
  /\ mpc = "ready"
  /\ \E choice \in ReadingChoices :
       \/ mstochHistory = stochHistoryOf(choice) /\ mrsiHistory = rsiHistoryOf(NeutralChoice)
       \/ mstochHistory = stochHistoryOf(NeutralChoice) /\ mrsiHistory = rsiHistoryOf(choice)
  /\ mmomentum = NoSignal

\* analyzeMomentum(candles, ind)
AnalyzeMomentum ==
  /\ mpc = "ready"
  /\ mpc' = "done"
  /\ mmomentum' = analyzeMomentum(MomentumCandles,
                     [HoldSnap EXCEPT !.stochHistory = mstochHistory, !.rsiHistory = mrsiHistory])
  /\ UNCHANGED <<mstochHistory, mrsiHistory>> /\ UNCHANGED exceptMomentum

NextMomentum == AnalyzeMomentum

SpecMomentum == InitMomentum /\ [][NextMomentum]_vars

-----------------------------------------------------------------------------
(* The engine's candle store: loadHistoricalCandles, addCandle and analyze *)
(* on the windows of two symbols.                                          *)

\* the most operations of one run
MaxOps == 2

\* outputsize of the live history fetch
historicalSize == 150

\* this.candleStore.set(symbol, [...candles])
loadHistoricalCandles(candleStore, symbol, candles) == [candleStore EXCEPT ![symbol] = candles]

\* addCandle(candle) on the store of candle.symbol
addCandleFor(candleStore, symbol, candle) ==
  [candleStore EXCEPT ![symbol] = addCandle(candleStore[symbol], candle)]

\* arr.splice(-n): removes what it returns
spliceLast(arr, n) == [array |-> SubSeq(arr, 1, Len(arr) - Min2(n, Len(arr))), result |-> LastN(arr, n)]

\* arr.slice(-n) and arr.map(f): the array they are called on, and the new
\* array they return
sliceLast(arr, n) == [array |-> arr, result |-> LastN(arr, n)]

mapOver(arr, f) == [array |-> arr, result |-> mapField(arr, f)]

\* the window after the array calls analyze and analyzeMomentum make on it
windowAfterMaps(candles) ==
  mapOver(mapOver(mapOver(mapOver(candles, "close").array, "high").array, "low").array, "open").array

windowAfterAnalyze(candles) ==
  IF Len(candles) < minCandles THEN candles
  ELSE sliceLast(windowAfterMaps(candles), momentumWindow).array

\* consecutive bars from timestamp 0
Window(n) == [k \in 1..n |-> FlatBar(BarMinutes * (k - 1), k - 1)]

StoreLens == { 0, minCandles - 1, maxStore - 1, maxStore }

LoadLens == { 1, historicalSize }

\* the timestamp of the last bar of a window, -BarMinutes for an empty one
lastTimestamp(candles) == IF Len(candles) = 0 THEN 0 - BarMinutes ELSE LastTs(candles)

\* the candles a poll delivers after a window: the last bar again with
\* another close, the next bar, the bar after a gap
CandlesAfter(candles) ==
  (IF Len(candles) = 0 THEN {}
   ELSE { [FlatBar(LastTs(candles), Len(candles)) EXCEPT !.close = RefPrice + 100] })
  \cup { FlatBar(lastTimestamp(candles) + BarMinutes * g, Len(candles)) : g \in {1, 2} }

InitStore ==
  /\ IdleExceptStore
  /\ kstore \in [Symbols -> { Window(n) : n \in StoreLens }]
  /\ kbefore = kstore
  /\ kop = NoOp
  /\ kops = 0

LoadHistoricalCandles ==
  /\ kops < MaxOps
  /\ \E symbol \in Symbols, n \in LoadLens :
       /\ kstore' = loadHistoricalCandles(kstore, symbol, Window(n))
       /\ kop' = [op |-> "load", symbol |-> symbol]
  /\ kbefore' = kstore
  /\ kops' = kops + 1
  /\ UNCHANGED exceptStore

AddCandle ==
  /\ kops < MaxOps
  /\ \E symbol \in Symbols :
       \E candle \in CandlesAfter(kstore[symbol]) :
         /\ kstore' = addCandleFor(kstore, symbol, candle)
         /\ kop' = [op |-> "add", symbol |-> symbol, candle |-> candle]
  /\ kbefore' = kstore
  /\ kops' = kops + 1
  /\ UNCHANGED exceptStore

Analyze ==
  /\ kops < MaxOps
  /\ \E symbol \in Symbols, lib \in ReplaySnaps, now \in ReplayHours :
       /\ kstore' = [kstore EXCEPT ![symbol] = windowAfterAnalyze(kstore[symbol])]
       /\ kop' = [op |-> "analyze", symbol |-> symbol,
                  result |-> analyze(PlainSelf, now, symbol, kstore[symbol], lib)]
  /\ kbefore' = kstore
  /\ kops' = kops + 1
  /\ UNCHANGED exceptStore

NextStore == LoadHistoricalCandles \/ AddCandle \/ Analyze

SpecStore == InitStore /\ [][NextStore]_vars

-----------------------------------------------------------------------------
(* The live agent: fetchLatestCandles emitting candle events, processCandle *)
(* for each of them, and the sends it waits for.  Code between two awaits   *)
(* runs without interruption; a call that reaches an await is suspended and *)
(* resumed by a later step.                                                 *)

\* polls and clock ticks of one run
MaxFetches == 1
MaxTicks == 1

minConfidence == 60
signalCooldown == 15

\* bars of history in the buffer and in the engine when polling starts
LiveHistory == minCandles

LiveStart == BarMinutes * LiveHistory

\* the market's bar that opened at ts, as seen at now: the close of the bar in
\* progress moves
marketBar(ts, now) ==
  [FlatBar(ts, ts \div BarMinutes) EXCEPT
     !.close = RefPrice + (IF ts + BarMinutes > now THEN now - ts ELSE BarMinutes)]

\* outputsize: 3, oldest first after reverse(): the three latest bars
latestValues(now) ==
  LET cur == (now \div BarMinutes) * BarMinutes
  IN <<marketBar(cur - 2 * BarMinutes, now), marketBar(cur - BarMinutes, now), marketBar(cur, now)>>

\* new Date().getUTCHours(), for a clock that reads 09:00 at minute 0
hourOf(now) == (9 + now \div 60) % 24

NoLastSignal == [has |-> FALSE, action |-> "", timestamp |-> 0]

\* the cooldown test of processCandle
inLiveCooldown(lastSignal, action, now) ==
  /\ lastSignal.has
  /\ now - lastSignal.timestamp < signalCooldown
  /\ lastSignal.action = action

\* the returns between analyze and the send
passesLive(signal, lastSignal, now) ==
  /\ ~signal.isNull
  /\ signal.action # "HOLD"
  /\ ~(signal.confidence < minConfidence)
  /\ ~inLiveCooldown(lastSignal, signal.action, now)

\* variant: addCandle is awaited too
awaitsAfterAdd(pc, mt5) == pc \in {"add", "send"} \/ (pc = "log" /\ mt5)

\* the awaits of processCandle: telegram.sendSignal always, mt5.executeSignal
\* when MT5 is enabled
awaitsAfter(pc, mt5) == pc = "send" \/ (pc = "log" /\ mt5)

\* this.signalEngine.addCandle(candle)
stepAdd(a, k) ==
  [a EXCEPT !.candleStore = addCandle(a.candleStore, a.calls[k].candle),
            !.writes = a.writes + 1,
            !.calls[k].pc = "analyze",
            !.calls[k].addedAt = a.writes + 1]

\* analyze and the returns that follow it; signal is what analyze returned
stepAnalyzed(a, k, now, signal) ==
  [a EXCEPT !.analyses = Append(a.analyses,
                                [candle |-> a.calls[k].candle,
                                 last |-> a.candleStore[Len(a.candleStore)],
                                 addedAt |-> a.calls[k].addedAt,
                                 analysedAt |-> a.writes]),
            !.calls[k].signal = signal,
            !.calls[k].pc = IF passesLive(signal, a.lastSignals, now) THEN "send" ELSE "done"]

stepAnalyze(a, k, now) ==
  stepAnalyzed(a, k, now,
               analyze(SignalEngine([minConfluence |-> 3, minRR |-> 0]), hourOf(now), SYMBOL,
                       a.candleStore, a.calls[k].lib))

\* this.telegram.sendSignal(signal) is called
stepSend(a, k, now) ==
  [a EXCEPT !.sent = Append(a.sent, [action |-> a.calls[k].signal.action, time |-> now]),
            !.calls[k].pc = "log"]

\* tracker.logSignal, and mt5.executeSignal when enabled
stepLog(a, k) == [a EXCEPT !.calls[k].pc = "set"]

\* this.lastSignals.set(candle.symbol, { action, timestamp: Date.now() })
stepSet(a, k, now) ==
  [a EXCEPT !.lastSignals = [has |-> TRUE, action |-> a.calls[k].signal.action,
                              timestamp |-> now],
            !.calls[k].pc = "done"]

step(a, k, now) ==
  IF a.calls[k].pc = "add" THEN stepAdd(a, k)
  ELSE IF a.calls[k].pc = "analyze" THEN stepAnalyze(a, k, now)
  ELSE IF a.calls[k].pc = "send" THEN stepSend(a, k, now)
  ELSE IF a.calls[k].pc = "log" THEN stepLog(a, k)
  ELSE stepSet(a, k, now)

\* call k runs from where it stands to its next await or to its end
RECURSIVE runCallOn(_, _, _, _, _)
runCallOn(a, k, now, mt5, stepped) ==
  IF stepped.calls[k].pc = "done" \/ awaitsAfter(a.calls[k].pc, mt5) THEN stepped
  ELSE runCallOn(stepped, k, now, mt5, step(stepped, k, now))

runCall(a, k, now, mt5) == runCallOn(a, k, now, mt5, step(a, k, now))

\* this.emit('candle', candle): processCandle(candle) starts and runs to its
\* first await
emitCandle(a, candle, lib, now, mt5) ==
  runCall([a EXCEPT !.calls = Append(a.calls, [candle |-> candle, lib |-> lib, pc |-> "add",
                                           addedAt |-> 0, signal |-> NoSignal])],
      Len(a.calls) + 1, now, mt5)

\* the buffer after one value of the response
bufferedValue(buffer, candle) ==
  IF Len(buffer) = 0 \/ candle.timestamp > LastTs(buffer)
  THEN IF Len(buffer) + 1 > maxStore THEN Tail(Append(buffer, candle)) ELSE Append(buffer, candle)
  ELSE IF candle.timestamp = LastTs(buffer) THEN [buffer EXCEPT ![Len(buffer)] = candle]
  ELSE buffer

\* whether the value is emitted as a candle event
emitsValue(buffer, candle) == Len(buffer) = 0 \/ candle.timestamp >= LastTs(buffer)

\* the values of a response that will be emitted: those not older than the
\* buffer's last bar
emittedOf(buffer, values) ==
  { i \in 1..Len(values) : Len(buffer) = 0 \/ values[i].timestamp >= LastTs(buffer) }

\* one value of the response: the buffer is updated and the event emitted
deliveredValue(s, candle, lib, now, mt5) ==
  [buffer |-> bufferedValue(s.buffer, candle),
   agent |-> IF emitsValue(s.buffer, candle) THEN emitCandle(s.agent, candle, lib, now, mt5)
             ELSE s.agent]

\* for (const v of data.values.reverse()) { ... }
RECURSIVE delivered(_, _, _, _, _, _)
delivered(s, values, libs, i, now, mt5) ==
  IF i > Len(values) THEN s
  ELSE delivered(deliveredValue(s, values[i], IF i \in DOMAIN libs THEN libs[i] ELSE HoldSnap,
                                now, mt5),
                 values, libs, i + 1, now, mt5)

LiveHistoryBars == [k \in 1..LiveHistory |-> marketBar(BarMinutes * (k - 1), LiveStart)]

InitLive ==
  /\ IdleExceptLive
  /\ lnow = LiveStart
  /\ lmt5 \in BOOLEAN
  /\ lfetches = 0
  /\ lbuffer = LiveHistoryBars
  /\ agent = [candleStore |-> LiveHistoryBars, writes |-> 0, lastSignals |-> NoLastSignal,
              calls |-> <<>>, sent |-> <<>>, analyses |-> <<>>]

\* time passes
Tick ==
  /\ lnow < LiveStart + BarMinutes * MaxTicks
  /\ lnow' = lnow + BarMinutes
  /\ UNCHANGED <<lmt5, lfetches, lbuffer, agent>> /\ UNCHANGED exceptLive

\* the response of a poll arrives: fetchLatestCandles goes through its values
FetchLatestCandles ==
  /\ lfetches < MaxFetches
  /\ \E libs \in [emittedOf(lbuffer, latestValues(lnow)) -> ReplaySnaps] :
       LET s == delivered([buffer |-> lbuffer, agent |-> agent], latestValues(lnow), libs, 1,
                          lnow, lmt5)
       IN lbuffer' = s.buffer /\ agent' = s.agent
  /\ lfetches' = lfetches + 1
  /\ UNCHANGED <<lnow, lmt5>> /\ UNCHANGED exceptLive

\* a send or an execution that a processCandle call waits for completes
Resume ==
  /\ \E k \in 1..Len(agent.calls) :
       /\ agent.calls[k].pc # "done"
       /\ agent' = runCall(agent, k, lnow, lmt5)
  /\ UNCHANGED <<lnow, lmt5, lfetches, lbuffer>> /\ UNCHANGED exceptLive

NextLive == Tick \/ FetchLatestCandles \/ Resume

SpecLive == InitLive /\ [][NextLive]_vars

-----------------------------------------------------------------------------
(* The signal-timing filters side by side: the cooldown of processCandle    *)
(* and the cooldown and cluster cap of runBacktest, on one time-ordered     *)
(* sequence of signals that passed the confidence filter.  Each live send  *)
(* completes before the next signal, and the clock reads the signal's time. *)

\* the most signals of a sequence
MaxSignals == 3

SignalGaps == { 5, 15, 20 }

\* the signals a sequence of directions and gaps makes, the first at LiveStart
RECURSIVE timeOf(_, _)
timeOf(gaps, k) == IF k = 1 THEN LiveStart ELSE timeOf(gaps, k - 1) + gaps[k - 1]

SignalSeqs ==
  UNION { { [k \in 1..n |-> [action |-> actions[k], timestamp |-> timeOf(gaps, k)]] :
              actions \in [1..n -> {"BUY", "SELL"}], gaps \in [1..(n - 1) -> SignalGaps] } :
          n \in 1..MaxSignals }

\* processCandle over the signals: lastSignals is read, and set after the send
RECURSIVE liveFrom(_, _, _, _)
liveFrom(signals, i, lastSignal, accepted) ==
  IF i > Len(signals) THEN accepted
  ELSE IF inLiveCooldown(lastSignal, signals[i].action, signals[i].timestamp)
       THEN liveFrom(signals, i + 1, lastSignal, accepted)
       ELSE liveFrom(signals, i + 1,
                     [has |-> TRUE, action |-> signals[i].action,
                      timestamp |-> signals[i].timestamp],
                     Append(accepted, signals[i]))

liveAccepted(signals) == liveFrom(signals, 1, NoLastSignal, <<>>)

\* the loop of runBacktest over the signals: lastSignalTime and recentSignals
\* are read, and set when the signal is recorded
RECURSIVE backtestFrom(_, _, _, _)
backtestFrom(signals, i, lastSignalTime, recentSignals) ==
  IF i > Len(signals) THEN recentSignals
  ELSE IF inCooldown(signals[i].timestamp, lastSignalTime)
          \/ clusterFull(recentSignals, signals[i].action, signals[i].timestamp)
       THEN backtestFrom(signals, i + 1, lastSignalTime, recentSignals)
       ELSE backtestFrom(signals, i + 1, signals[i].timestamp, Append(recentSignals, signals[i]))

backtestAccepted(signals) == backtestFrom(signals, 1, 0, <<>>)

InitTiming ==
  /\ IdleExceptTiming
  /\ tpc = "ready"
  /\ tsignals \in SignalSeqs
  /\ tlive = <<>> /\ tbacktest = <<>>

FilterLive ==
  /\ tpc = "ready"
  /\ tpc' = "live"
  /\ tlive' = liveAccepted(tsignals)
  /\ UNCHANGED <<tsignals, tbacktest>> /\ UNCHANGED exceptTiming

FilterBacktest ==
  /\ tpc = "live"
  /\ tpc' = "both"
  /\ tbacktest' = backtestAccepted(tsignals)
  /\ UNCHANGED <<tsignals, tlive>> /\ UNCHANGED exceptTiming

NextTiming == FilterLive \/ FilterBacktest

SpecTiming == InitTiming /\ [][NextTiming]_vars

-----------------------------------------------------------------------------
(* Configuration: the command line of the backtest read by getArg and      *)
(* parseInt, and the config object read by the constructor of SignalEngine. *)

Digits == <<"0", "1", "2", "3", "4", "5", "6", "7", "8", "9">>

isDigit(ch) == \E d \in 1..10 : Digits[d] = ch

digitOf(ch) == (CHOOSE d \in 1..10 : Digits[d] = ch) - 1

\* the value of the longest prefix of digits of text from position i, after
\* acc; seen says whether a digit has been read
RECURSIVE parseDigits(_, _, _, _)
parseDigits(text, i, acc, seen) ==
  IF i <= Len(text) /\ isDigit(text[i])
  THEN parseDigits(text, i + 1, acc * 10 + digitOf(text[i]), TRUE)
  ELSE IF seen THEN Num(acc) ELSE NaN

\* parseInt(text): an optional sign, then the digits that follow; NaN when
\* there is none; whatever follows the digits is ignored
parseInt(text) ==
  IF text # <<>> /\ text[1] = "-"
  THEN LET v == parseDigits(text, 2, 0, FALSE)
       IN IF v.t = "number" THEN Num(0 - v.n) ELSE NaN
  ELSE parseDigits(text, 1, 0, FALSE)

\* getArg(name, def): the text after --name, or def
getArg(argv, name, def) == IF argv[name].given THEN argv[name].text ELSE def

\* value || def: undefined, NaN and 0 are falsy
falsy(v) == v.t # "number" \/ v.n = 0

\* the constructor's reading of a field: SignalEngine takes 0 for a falsy value
fieldOf(v) == IF falsy(v) THEN 0 ELSE v.n

\* signal.confidence >= MIN_CONFIDENCE: a comparison with NaN is false
atLeast(confidence, threshold) == threshold.t = "number" /\ confidence >= threshold.n

ArgTexts ==
  { <<"3">>, <<"5", "5">>, <<"0">>, <<"-", "2">>, <<"a", "b", "c">>, <<"2", "x">> }

ArgChoices == { NoArg } \cup { Arg(text) : text \in ArgTexts }

FieldChoices == { Undefined, NaN, Num(0 - 2), Num(0), Num(2), Num(200) }

ProbeConfidences == { 40, 70 }

InitConfig ==
  /\ IdleExceptConfig
  /\ \/ /\ cpc = "args"
        /\ cargv \in [confluence : ArgChoices, confidence : ArgChoices]
        /\ cconfig = [minConfluence |-> Undefined, minRR |-> Undefined]
     \/ /\ cpc = "config"
        /\ cargv = [confluence |-> NoArg, confidence |-> NoArg]
        /\ cconfig \in [minConfluence : FieldChoices, minRR : FieldChoices]
  /\ cconst = [MIN_CONFLUENCE |-> Undefined, MIN_CONFIDENCE |-> Undefined]
  /\ cself = PlainSelf /\ crecorded = FALSE

\* the constants of backtest.js, set when the module is loaded
ParseArgs ==
  /\ cpc = "args"
  /\ cpc' = "parsed"
  /\ cconst' = [MIN_CONFIDENCE |-> parseInt(getArg(cargv, "confidence", <<"6", "0">>)),
                MIN_CONFLUENCE |-> parseInt(getArg(cargv, "confluence", <<"3">>))]
  /\ UNCHANGED <<cargv, cconfig, cself, crecorded>> /\ UNCHANGED exceptConfig

\* runBacktest: new SignalEngine({ minConfluence: MIN_CONFLUENCE, ... })
StartBacktest ==
  /\ cpc = "parsed"
  /\ cpc' = "started"
  /\ cconfig' = [minConfluence |-> cconst.MIN_CONFLUENCE, minRR |-> Undefined]
  /\ cself' = SignalEngine([minConfluence |-> fieldOf(cconst.MIN_CONFLUENCE), minRR |-> 0])
  /\ UNCHANGED <<cargv, cconst, crecorded>> /\ UNCHANGED exceptConfig

\* runBacktest: a signal of some confidence meets the threshold
MeetThreshold ==
  /\ cpc = "started"
  /\ cpc' = "replayed"
  /\ \E confidence \in ProbeConfidences :
       crecorded' = atLeast(confidence, cconst.MIN_CONFIDENCE)
  /\ UNCHANGED <<cargv, cconst, cconfig, cself>> /\ UNCHANGED exceptConfig

\* new SignalEngine(config)
Construct ==
  /\ cpc = "config"
  /\ cpc' = "constructed"
  /\ cself' = SignalEngine([minConfluence |-> fieldOf(cconfig.minConfluence),
                            minRR |-> fieldOf(cconfig.minRR)])
  /\ UNCHANGED <<cargv, cconst, cconfig, crecorded>> /\ UNCHANGED exceptConfig

NextConfig == ParseArgs \/ StartBacktest \/ MeetThreshold \/ Construct

SpecConfig == InitConfig /\ [][NextConfig]_vars

-----------------------------------------------------------------------------
(* backtest.js: runBacktest from its first line: the three fetches, the    *)
(* replay and the report.  The engine's 15min and 1h gates act on the      *)
(* signal analyze returns, on the bars handed to the engine so far: with   *)
(* none handed a gate does nothing; otherwise the higher timeframe's trend *)
(* is aligned with the action (the confidence is raised, to 92 at most, and *)
(* a reason is added), moderately against it (the confidence is halved and *)
(* a warning added), strongly against it (HOLD), or neither.               *)

\* what a gate finds, and by how much an aligned trend raises the confidence
GateKinds ==
  { [kind |-> "neutral", boost |-> 0], [kind |-> "aligned", boost |-> 10],
    [kind |-> "aligned", boost |-> 30], [kind |-> "against", boost |-> 0],
    [kind |-> "blocked", boost |-> 0] }

gateKindsOn(handed) == IF handed = <<>> THEN { [kind |-> "neutral", boost |-> 0] } ELSE GateKinds

gate(signal, found, aligned, against) ==
  IF signal.isNull THEN signal
  ELSE IF signal.action = "HOLD" \/ found.kind = "neutral" THEN signal
  ELSE IF found.kind = "blocked"
    THEN [signal EXCEPT !.action = "HOLD", !.warnings = Append(@, against)]
  ELSE IF found.kind = "against"
    THEN [signal EXCEPT !.confidence = @ \div 2, !.warnings = Append(@, against)]
  ELSE [signal EXCEPT !.confidence = Max2(@, Min2(92, @ + found.boost)),
                      !.reasons = Append(@, aligned)]

\* analyze with the gates: the 15min gate, then the 1h gate
analyzeGated(run, fedRun, candle, now, lib, kind15m, kind1h) ==
  gate(gate(analyze(run.self, now, SYMBOL, addCandle(run.candleStore, candle), lib),
            kind15m, MtfAligned, MtfAgainst),
       kind1h, MacroAligned, MacroAgainst)

\* variant: the series of an earlier run is kept when the fetch fails
fetchedOrStale(ok, series) == series

\* let candles = []; try { candles = await fetchHistorical(...) } catch { warn }
fetchedOr(ok, series) == IF ok THEN series ELSE <<>>

\* the most candles analysed in a whole backtest
FetchTail == 2

\* the 5min series of a whole backtest: the warm-up candles and FetchTail
\* more, twenty minutes apart
FetchGaps == [k \in 1..(FetchTail - 1) |-> 20]

InitFetch ==
  /\ IdleExceptFetch
  /\ fpc = "fetch5m" /\ ffetch = NoFetch /\ frun = NoRun
  /\ fnow \in ReplayHours
  /\ fexit = 0 /\ freport = FALSE

\* the 5min fetch: a failure is logged and the process exits with code 1
Fetch5m ==
  /\ fpc = "fetch5m"
  /\ \E ok \in BOOLEAN :
       /\ ffetch' = [ffetch EXCEPT !.m5 = IF ok THEN "ok" ELSE "failed"]
       /\ fpc' = IF ok THEN "fetch15m" ELSE "exit"
       /\ fexit' = IF ok THEN 0 ELSE 1
  /\ UNCHANGED <<frun, fnow, freport>> /\ UNCHANGED exceptFetch

\* the 15min fetch: a failure is logged and the series stays empty
Fetch15m ==
  /\ fpc = "fetch15m"
  /\ \E ok \in BOOLEAN : ffetch' = [ffetch EXCEPT !.m15 = IF ok THEN "ok" ELSE "failed"]
  /\ fpc' = "fetch1h"
  /\ UNCHANGED <<frun, fnow, fexit, freport>> /\ UNCHANGED exceptFetch

\* the 1h fetch, then the engine is constructed and the series pre-loaded
Fetch1h ==
  /\ fpc = "fetch1h"
  /\ \E ok \in BOOLEAN :
       LET c5 == Candles5m(FetchGaps)
       IN /\ ffetch' = [ffetch EXCEPT !.h1 = IF ok THEN "ok" ELSE "failed"]
          /\ frun' = startRun(c5, fetchedOr(ffetch.m15 = "ok", Candles15m(c5)),
                              fetchedOr(ok, Candles1h(c5)))
  /\ fpc' = "replay"
  /\ UNCHANGED <<fnow, fexit, freport>> /\ UNCHANGED exceptFetch

\* one iteration of the loop over candles5m
ReplayCandle ==
  /\ fpc = "replay" /\ frun.pc = "loop"
  /\ LET candle == candleAt(frun.candles5m, frun.i)
         fedRun == fed(frun, candle)
     IN IF frun.i < warmupCandles THEN frun' = fedRun
        ELSE \E lib \in ReplaySnaps, kind15m \in gateKindsOn(fedRun.handed15m),
                 kind1h \in gateKindsOn(fedRun.handed1h) :
               frun' = analysed(frun, candle, fedRun,
                                analyzeGated(frun, fedRun, candle, fnow, lib, kind15m, kind1h))
  /\ UNCHANGED <<fpc, ffetch, fnow, fexit, freport>> /\ UNCHANGED exceptFetch

\* after the loop: fs.writeFileSync(OUTPUT_FILE, ...)
WriteReport ==
  /\ fpc = "replay" /\ frun.pc = "done"
  /\ fpc' = "done" /\ freport' = TRUE
  /\ UNCHANGED <<ffetch, frun, fnow, fexit>> /\ UNCHANGED exceptFetch

NextFetch == Fetch5m \/ Fetch15m \/ Fetch1h \/ ReplayCandle \/ WriteReport

SpecFetch == InitFetch /\ [][NextFetch]_vars

-----------------------------------------------------------------------------
(* calcIndicators' Stochastic fields, analyzeMomentum and generateSignal   *)
(* on one series of Stochastic readings: stoch is the last reading,        *)
(* stochPrev the one before, stochHistory the last six.                    *)

historyLen == 6

\* variant: the history stops before the current reading
withStochBefore(lib, stoch) ==
  [lib EXCEPT !.stoch = stoch[Len(stoch)],
              !.stochPrev = IF Len(stoch) > 1 THEN stoch[Len(stoch) - 1] ELSE NoStoch,
              !.stochHistory = LastN(ButLast(stoch), historyLen)]

\* stoch: stoch[stoch.length - 1], stochPrev: ..., stochHistory: stoch.slice(-6)
withStoch(lib, stoch) ==
  [lib EXCEPT !.stoch = stoch[Len(stoch)],
              !.stochPrev = IF Len(stoch) > 1 THEN stoch[Len(stoch) - 1] ELSE NoStoch,
              !.stochHistory = LastN(stoch, historyLen)]

\* the length of the Stochastic series
PersistLen == 5

OlderReadings == { Stoch(90, 85), Stoch(10, 15), Stoch(50, 50) }

LatestReadings ==
  { Stoch(90, 85), Stoch(85, 90), Stoch(75, 70), Stoch(10, 15), Stoch(15, 10), Stoch(25, 30) }

StochSeries ==
  { older \o latest : older \in [1..(PersistLen - 2) -> OlderReadings],
                      latest \in [1..2 -> LatestReadings] }

InitPersist ==
  /\ IdleExceptEngine
  /\ epc = "ready"
  /\ \E lib \in ReplaySnaps, stoch \in StochSeries :
       eind = calcIndicators(withStoch(lib, stoch),
                             mapField(Window(minCandles), "close"),
                             mapField(Window(minCandles), "high"),
                             mapField(Window(minCandles), "low"),
                             mapField(Window(minCandles), "open"))
  /\ ectx = MkCtx([trend |-> "NEUTRAL", trendStrength |-> 0], "NORMAL", "LONDON",
                  "TRENDING", FarSR)
  /\ emom = PlainMom /\ eself = PlainSelf /\ esymbol = SYMBOL
  /\ enow \in WallHours
  /\ edecision = NoSignal /\ esignal = NoSignal

\* analyze from analyzeMomentum on: the momentum of the indicators, then the
\* signal
AnalyzeStoch ==
  /\ epc = "ready"
  /\ LET momentum == analyzeMomentum(Window(minCandles), eind)
     IN /\ emom' = momentum
        /\ edecision' = decide(eself, eind, ectx, momentum, eind.price)
        /\ esignal' = generateSignal(eself, enow, esymbol, eind, ectx, momentum, eind.price)
  /\ epc' = "done"
  /\ UNCHANGED <<esymbol, eself, eind, ectx, enow>>
  /\ UNCHANGED exceptEngine

NextPersist == AnalyzeStoch

SpecPersist == InitPersist /\ [][NextPersist]_vars

-----------------------------------------------------------------------------
(* analyze on a window whose last eight candles make a move.  The EMA 9    *)
(* and the ATR 14 the indicator library returns are computed from the      *)
(* window, as the library computes them, in whole price units: the EMA     *)
(* starts from the mean of the first 9 closes and moves 2/10 of the way to *)
(* each close; the ATR starts from the mean of the first 14 true ranges    *)
(* and is smoothed over 14.                                                *)

emaPeriod == 9

atrPeriod == 14

RECURSIVE emaAt(_, _, _)
emaAt(values, i, period) ==
  IF i <= period THEN SumGaps(values, period) \div period
  ELSE (emaAt(values, i - 1, period) * (period - 1) + 2 * values[i]) \div (period + 1)

emaOf(values, period) == emaAt(values, Len(values), period)

trueRange(candles, i) ==
  Max2(candles[i].high - candles[i].low,
       Max2(Abs(candles[i].high - candles[i - 1].close),
            Abs(candles[i].low - candles[i - 1].close)))

RECURSIVE atrAt(_, _, _)
atrAt(candles, i, period) ==
  IF i <= period + 1
  THEN SumGaps([k \in 1..period |-> trueRange(candles, k + 1)], period) \div period
  ELSE (atrAt(candles, i - 1, period) * (period - 1) + trueRange(candles, i)) \div period

atrOf(candles, period) == atrAt(candles, Len(candles), period)

\* a candle from open to close, its high and low ten units beyond them
MoveBar(ts, open, close) ==
  [timestamp |-> ts, open |-> open, close |-> close,
   high |-> Max2(open, close) + 10, low |-> Min2(open, close) - 10]

\* the close of the candle k of the last eight: a first step, a drift per
\* candle, a last step
moveClose(m, k) ==
  RefPrice + (IF k < 1 THEN 0
              ELSE m.first + m.drift * (Min2(k, momentumWindow - 1) - 1)
                   + (IF k = momentumWindow THEN m.drift + m.last ELSE 0))

\* minCandles candles: flat at RefPrice, then the last eight
MoveWindow(m) ==
  [k \in 1..minCandles |->
     LET j == k - (minCandles - momentumWindow)
     IN MoveBar(BarMinutes * (k - 1), moveClose(m, j - 1), moveClose(m, j))]

Moves ==
  [first : { 0 - 8000, 0 - 6000, 0, 6000, 8000 }, drift : { 0 - 500, 0, 500 },
   last : { 0 - 3000, 0, 3000 }]

\* what the library returns for a window: a snapshot with the EMA 9 and the
\* ATR of the window
moveLib(snap, candles) ==
  [snap EXCEPT !.ema9 = emaOf(mapField(candles, "close"), emaPeriod),
               !.atr = atrOf(candles, atrPeriod)]

MoveIdle ==
  /\ OutcomeIdle /\ ReplayIdle /\ LevelsIdle /\ MomentumIdle
  /\ LiveIdle /\ TimingIdle /\ ConfigIdle /\ FetchIdle /\ TrackerIdle /\ ApiIdle
  /\ kbefore = <<>> /\ kop = NoOp /\ kops = 0

InitMove ==
  /\ MoveIdle
  /\ epc = "ready"
  /\ \E m \in Moves, snap \in ReplaySnaps :
       /\ kstore = [symbol \in {SYMBOL} |-> MoveWindow(m)]
       /\ eind = moveLib(snap, MoveWindow(m))
  /\ ectx = PlainCtx /\ emom = PlainMom /\ eself = PlainSelf /\ esymbol = SYMBOL
  /\ enow \in WallHours
  /\ edecision = NoSignal /\ esignal = NoSignal

\* analyze(symbol) on the stored window, eind being what the library returns
AnalyzeMove ==
  /\ epc = "ready"
  /\ LET candles == kstore[esymbol]
         closes == mapField(candles, "close")
         highs == mapField(candles, "high")
         lows == mapField(candles, "low")
         ind == calcIndicators(eind, closes, highs, lows, mapField(candles, "open"))
         ctx == getContext(enow, ind, closes, highs, lows)
         momentum == analyzeMomentum(candles, ind)
     IN /\ eind' = ind /\ ectx' = ctx /\ emom' = momentum
        /\ edecision' = decide(eself, ind, ctx, momentum, ind.price)
        /\ esignal' = analyze(eself, enow, esymbol, candles, eind)
  /\ epc' = "done"
  /\ UNCHANGED <<esymbol, eself, enow>>
  /\ UNCHANGED exceptEngine

NextMove == AnalyzeMove

SpecMove == InitMove /\ [][NextMove]_vars

-----------------------------------------------------------------------------
(* backtest.js runBacktest, lines 370-402: the record pushed for a signal  *)
(* of the engine, from the outcome simulateOutcome gives it.               *)

RecordFwd == 3

recordIdle ==
  /\ ReplayIdle /\ LevelsIdle /\ MomentumIdle /\ StoreIdle
  /\ LiveIdle /\ TimingIdle /\ ConfigIdle /\ FetchIdle /\ TrackerIdle /\ ApiIdle

\* a forward bar placed against the levels of the signal: it reaches the
\* take profit, the stop loss, both or neither, and closes inside its range
RecordBar(signal, kind, idx, closeAt) ==
  LET top == Max2(signal.stopLoss, signal.takeProfit)
      bottom == Min2(signal.stopLoss, signal.takeProfit)
      up == IF signal.action = "BUY" THEN {"tp", "both"} ELSE {"sl", "both"}
      down == IF signal.action = "BUY" THEN {"sl", "both"} ELSE {"tp", "both"}
      high == IF kind \in up THEN top ELSE top - 1
      low == IF kind \in down THEN bottom ELSE bottom + 1
  IN [timestamp |-> BarMinutes * idx, open |-> signal.price, high |-> high, low |-> low,
      close |-> IF closeAt = "high" THEN high ELSE IF closeAt = "low" THEN low
                ELSE signal.price]

RecordSeries(signal, n, p, kind, closeAt) ==
  [i \in 1..(1 + n) |->
     IF i - 1 = p /\ p > 0 THEN RecordBar(signal, kind, i - 1, closeAt)
     ELSE RecordBar(signal, "quiet", i - 1, closeAt)]

RecordSR == { FarSR, [support |-> RefPrice - 700, resistance |-> RefPrice + 1300] }

RecordAtrs == { 0, 300, 333 }

InitRecord ==
  /\ recordIdle
  /\ epc = "done" /\ esymbol = SYMBOL /\ emom = PlainMom
  /\ enow \in WallHours
  /\ \E lib \in { BuySnap, SellSnap }, atr \in RecordAtrs, config \in Configs, sr \in RecordSR :
       /\ eself = SignalEngine(config)
       /\ eind = [calcIndicators(lib, mapField(Window(minCandles), "close"),
                                 mapField(Window(minCandles), "high"),
                                 mapField(Window(minCandles), "low"),
                                 mapField(Window(minCandles), "open"))
                    EXCEPT !.atr = atr]
       /\ ectx = MkCtx([trend |-> "NEUTRAL", trendStrength |-> 0], "NORMAL", "LONDON",
                       "TRENDING", sr)
  /\ edecision = decide(eself, eind, ectx, emom, eind.price)
  /\ esignal = generateSignal(eself, enow, esymbol, eind, ectx, emom, eind.price)
  /\ esignal.action # "HOLD"
  /\ osignal = esignal /\ osignalIndex = 0
  /\ \E n \in 0..RecordFwd, p \in 0..RecordFwd, kind \in {"tp", "sl", "both"},
        closeAt \in {"high", "low", "entry"} :
       /\ p <= n
       /\ ocandles = RecordSeries(esignal, n, p, kind, closeAt)
  /\ opc = "ready" /\ ofn = "" /\ oresult = NoOutcome

\* the loop body from simulateOutcome to results.push
RecordResult ==
  /\ opc = "ready" /\ epc = "done"
  /\ LET outcome == simulateOutcome(osignal, ocandles, osignalIndex)
     IN oresult' = recordOf(ocandles[osignalIndex + 1], osignal, outcome)
  /\ ofn' = "runBacktest" /\ opc' = "done"
  /\ UNCHANGED <<osignal, ocandles, osignalIndex>>
  /\ UNCHANGED <<evars, rvars, svars, mvars, kvars, lvars, tvars, cvars, fvars, wvars, avars>>

NextRecord == RecordResult

SpecRecord == InitRecord /\ [][NextRecord]_vars

-----------------------------------------------------------------------------
(* WinRateTracker.js: logSignal and updatePrice.  The wall clock is in     *)
(* minutes; a field is null (NotSet) or a number.                          *)

MaxCalls == 5

expiryHours == 4

NotSet == [t |-> "null", n |-> 0]

TrackedSymbols == { SYMBOL, "EUR/USD" }

\* the candles updatePrice is called with: close, high, low
UpdateCandles ==
  { [price |-> RefPrice + c, high |-> RefPrice + h, low |-> RefPrice - l] :
      c \in {0 - 50, 50}, h \in {100, 900}, l \in {100, 900} }

entryOf(signal, now) ==
  [symbol |-> signal.symbol, action |-> signal.action, entryPrice |-> signal.price,
   stopLoss |-> signal.stopLoss, takeProfit |-> signal.takeProfit,
   timestamp |-> now, status |-> "OPEN", closePrice |-> NotSet, closeTime |-> NotSet,
   pnlR |-> NotSet, durationMins |-> NotSet]

expiredWhateverStatus(signal, now) == now - signal.timestamp > 60 * expiryHours

expired(signal, now) ==
  now - signal.timestamp > 60 * expiryHours /\ signal.status = "OPEN"

\* the body of updatePrice's loop for one open signal
resolved(signal, now, currentPrice, high, low) ==
  LET result == checkSignalResult(signal, currentPrice, high, low)
  IN IF result.isNull THEN signal
     ELSE [signal EXCEPT !.status = result.outcome, !.closePrice = Num(result.exitPrice),
                         !.closeTime = Num(now), !.durationMins = Num(now - signal.timestamp),
                         !.pnlR = Num(result.pnlR)]

expiredOrLeft(signal, now, currentPrice) ==
  IF expired(signal, now)
  THEN [signal EXCEPT !.status = "EXPIRED", !.closePrice = Num(currentPrice),
                      !.closeTime = Num(now), !.durationMins = Num(now - signal.timestamp),
                      !.pnlR = Num(SignedFixed2((currentPrice - signal.entryPrice)
                                                  * (IF signal.action = "BUY" THEN 1 ELSE 0 - 1),
                                                Abs(signal.entryPrice - signal.stopLoss)))]
  ELSE signal

updatePrice(signals, symbol, now, currentPrice, high, low) ==
  [i \in 1..Len(signals) |->
     IF signals[i].symbol = symbol /\ signals[i].status = "OPEN"
     THEN expiredOrLeft(resolved(signals[i], now, currentPrice, high, low), now, currentPrice)
     ELSE signals[i]]

InitTracker ==
  /\ EngineIdle /\ OutcomeIdle /\ ReplayIdle /\ LevelsIdle /\ MomentumIdle /\ StoreIdle
  /\ LiveIdle /\ TimingIdle /\ ConfigIdle /\ FetchIdle /\ ApiIdle
  /\ wsignals = <<>> /\ wnow = 0 /\ wlast = NoCall /\ wops = 0

LogSignal ==
  /\ wops < MaxCalls
  /\ \E action \in {"BUY", "SELL"}, symbol \in TrackedSymbols :
       /\ wsignals' = Append(wsignals, entryOf([TradeOf(action) EXCEPT !.action = action]
                                                 @@ [symbol |-> symbol], wnow))
       /\ wlast' = [op |-> "logSignal", symbol |-> symbol]
  /\ wops' = wops + 1
  /\ UNCHANGED wnow
  /\ UNCHANGED <<evars, ovars, rvars, svars, mvars, kvars, lvars, tvars, cvars, fvars, avars>>

UpdatePrice ==
  /\ wops < MaxCalls
  /\ \E symbol \in TrackedSymbols, c \in UpdateCandles :
       /\ wsignals' = updatePrice(wsignals, symbol, wnow, c.price, c.high, c.low)
       /\ wlast' = [op |-> "updatePrice", symbol |-> symbol, price |-> c.price,
                    high |-> c.high, low |-> c.low]
  /\ wops' = wops + 1
  /\ UNCHANGED wnow
  /\ UNCHANGED <<evars, ovars, rvars, svars, mvars, kvars, lvars, tvars, cvars, fvars, avars>>

\* the wall clock moves on by a little over half the expiry time
TrackerClock ==
  /\ wops < MaxCalls
  /\ wnow' = wnow + 30 * expiryHours + 1
  /\ wops' = wops + 1
  /\ UNCHANGED <<wsignals, wlast>>
  /\ UNCHANGED <<evars, ovars, rvars, svars, mvars, kvars, lvars, tvars, cvars, fvars, avars>>

NextTracker == LogSignal \/ UpdatePrice \/ TrackerClock

SpecTracker == InitTracker /\ [][NextTracker]_vars

-----------------------------------------------------------------------------
(* MarketDataService.js: checkRateLimit, apiCall and the three pollers.    *)
(* Times are in seconds and relative to the wall clock: lastMinuteReset is *)
(* how long ago it was set, as a time at or before zero, and the end of a  *)
(* sleep is how far ahead it is; when the clock moves on every time is     *)
(* shifted back.  A lastMinuteReset older than the minute is kept as just  *)
(* older than the minute, which is all the code asks of it.  JavaScript    *)
(* runs a callback to its next suspension (a sleep, the HTTP request)      *)
(* without interruption, so the steps below are the stretches between      *)
(* suspensions.  The health bookkeeping (consecutiveErrors, isHealthy) is  *)
(* left out: it decides only whether a poll starts.                        *)

MaxSymbols == 3

ApiFailures == 1

CallFailures == 5

DailyLimit == 8

minuteLimit == 7

minuteSeconds == 60

maxRetries == 3

retryDelay == 5

Pollers == { "5min", "15min", "1h" }

Responses == { "data", "limitError", "apiError", "http429", "timeout", "networkError" }

IdlePoller ==
  [pc |-> "idle", left |-> 0, retries |-> 0, wake |-> 0, requests |-> 0,
   lastResult |-> "none"]

apiState ==
  [minuteCallCount |-> minuteCallCount, lastMinuteReset |-> lastMinuteReset,
   apiCreditsDaily |-> apiCreditsDaily, windowRequests |-> windowRequests]

\* Date.now() - this.lastMinuteReset
sinceReset(api) == 0 - api.lastMinuteReset

mayRetryOnceMore(retries) == retries <= maxRetries

mayRetry(retries) == retries < maxRetries

RECURSIVE apiCall(_, _)
RECURSIVE returned(_, _, _)

\* the poller's loop after a call returned: data is handled and the loop
\* sleeps 800 ms before the next symbol, null goes on to the next symbol
returned(api, call, result) ==
  LET done == [call EXCEPT !.lastResult = result]
  IN IF result = "data" THEN [api |-> api, call |-> [done EXCEPT !.pc = "pause"]]
     ELSE IF call.left > 1
       THEN apiCall(api, [done EXCEPT !.left = call.left - 1, !.retries = 0,
                                      !.requests = 0])
     ELSE [api |-> api, call |-> [done EXCEPT !.pc = "idle", !.left = 0]]

\* apiCall after checkRateLimit has passed the minute limit: the daily
\* limit, then the request
issue(api, call) ==
  IF api.apiCreditsDaily >= DailyLimit THEN returned(api, call, "null")
  ELSE [api |-> [api EXCEPT !.minuteCallCount = @ + 1, !.apiCreditsDaily = @ + 1,
                            !.windowRequests = @ + 1],
        call |-> [call EXCEPT !.pc = "request", !.requests = @ + 1]]

\* apiCall from its entry to its first suspension
apiCall(api, call) ==
  LET fresh == IF sinceReset(api) > minuteSeconds
               THEN [api EXCEPT !.minuteCallCount = 0, !.lastMinuteReset = 0,
                                !.windowRequests = 0]
               ELSE api
  IN IF fresh.minuteCallCount >= minuteLimit
     THEN [api |-> fresh,
           call |-> [call EXCEPT !.pc = "rateWait",
                                 !.wake = minuteSeconds - sinceReset(fresh) + 1]]
     ELSE issue(fresh, call)

\* the retry after a sleep, or null when the retries are used up
retryOrNull(api, call) ==
  IF mayRetry(call.retries) THEN apiCall(api, [call EXCEPT !.retries = @ + 1])
  ELSE returned(api, call, "null")

apiSet(p, r) ==
  /\ pollers' = [pollers EXCEPT ![p] = r.call]
  /\ minuteCallCount' = r.api.minuteCallCount
  /\ lastMinuteReset' = r.api.lastMinuteReset
  /\ apiCreditsDaily' = r.api.apiCreditsDaily
  /\ windowRequests' = r.api.windowRequests
  /\ UNCHANGED <<evars, ovars, rvars, svars, mvars, kvars, lvars, tvars, cvars, fvars, wvars>>

apiOthersIdle ==
  /\ EngineIdle /\ OutcomeIdle /\ ReplayIdle /\ LevelsIdle /\ MomentumIdle /\ StoreIdle
  /\ LiveIdle /\ TimingIdle /\ ConfigIdle /\ FetchIdle /\ TrackerIdle

InitApi ==
  /\ apiOthersIdle
  /\ minuteCallCount = 0 /\ lastMinuteReset = 0 /\ apiCreditsDaily = 0
  /\ windowRequests = 0 /\ failuresLeft = ApiFailures
  /\ pollers = [p \in Pollers |-> IdlePoller]

Polled == { p \in DOMAIN pollers : pollers[p].pc # "idle" \/ pollers[p].lastResult # "none" }

\* a poller's timer fires: fetchLatestCandles, fetchLatest15mCandles or
\* fetchLatest1hCandles starts on the first symbol
Poll(p) ==
  /\ p \in DOMAIN pollers /\ p \notin Polled
  /\ apiSet(p, apiCall(apiState, [pollers[p] EXCEPT !.left = MaxSymbols, !.retries = 0,
                                                    !.requests = 0]))
  /\ UNCHANGED failuresLeft

\* the sleep of checkRateLimit ends
RateWaitOver(p) ==
  /\ p \in DOMAIN pollers /\ pollers[p].pc = "rateWait" /\ pollers[p].wake = 0
  /\ apiSet(p, issue([apiState EXCEPT !.minuteCallCount = 0, !.lastMinuteReset = 0,
                                      !.windowRequests = 0],
                     pollers[p]))
  /\ UNCHANGED failuresLeft

\* the request is answered, or fails
Respond(p) ==
  /\ p \in DOMAIN pollers /\ pollers[p].pc = "request"
  /\ \E response \in Responses :
       /\ response # "data" => failuresLeft > 0
       /\ failuresLeft' = IF response = "data" THEN failuresLeft ELSE failuresLeft - 1
       /\ apiSet(p,
         IF response = "data" THEN returned(apiState, pollers[p], "data")
         ELSE IF response \in {"limitError", "http429"}
           THEN [api |-> apiState,
                 call |-> [pollers[p] EXCEPT !.pc = response, !.wake = minuteSeconds]]
         ELSE IF response = "timeout" /\ mayRetry(pollers[p].retries)
           THEN [api |-> apiState,
                 call |-> [pollers[p] EXCEPT !.pc = "timeout",
                             !.wake = retryDelay * (pollers[p].retries + 1)]]
         ELSE returned(apiState, pollers[p], "null"))

\* the 60 s sleep after a rate-limit error response ends
LimitErrorOver(p) ==
  /\ p \in DOMAIN pollers /\ pollers[p].pc = "limitError" /\ pollers[p].wake = 0
  /\ apiSet(p, retryOrNull([apiState EXCEPT !.minuteCallCount = 0], pollers[p]))
  /\ UNCHANGED failuresLeft

\* the 60 s sleep after an HTTP 429 ends
Http429Over(p) ==
  /\ p \in DOMAIN pollers /\ pollers[p].pc = "http429" /\ pollers[p].wake = 0
  /\ apiSet(p, retryOrNull(apiState, pollers[p]))
  /\ UNCHANGED failuresLeft

\* the sleep before the retry of a timed-out request ends
TimeoutOver(p) ==
  /\ p \in DOMAIN pollers /\ pollers[p].pc = "timeout" /\ pollers[p].wake = 0
  /\ apiSet(p, apiCall(apiState, [pollers[p] EXCEPT !.retries = @ + 1]))
  /\ UNCHANGED failuresLeft

\* the 800 ms between two symbols end
NextSymbol(p) ==
  /\ p \in DOMAIN pollers /\ pollers[p].pc = "pause"
  /\ apiSet(p, IF pollers[p].left > 1
               THEN apiCall(apiState, [pollers[p] EXCEPT !.left = @ - 1, !.retries = 0,
                                                         !.requests = 0])
               ELSE [api |-> apiState,
                     call |-> [pollers[p] EXCEPT !.pc = "idle", !.left = 0]])
  /\ UNCHANGED failuresLeft

Sleeping ==
  { p \in DOMAIN pollers : /\ pollers[p].pc \in {"rateWait", "limitError", "http429", "timeout"}
                           /\ pollers[p].wake > 0 }

\* the wall clock moves on to the end of the next sleep
ApiClock ==
  /\ Sleeping # {}
  /\ LET d == CHOOSE t \in { pollers[p].wake : p \in Sleeping } :
                \A p \in Sleeping : t <= pollers[p].wake
     IN /\ pollers' = [p \in DOMAIN pollers |->
                         [pollers[p] EXCEPT !.wake = Max2(@ - d, 0)]]
        /\ lastMinuteReset' = Max2(lastMinuteReset - d, 0 - (minuteSeconds + 1))
  /\ UNCHANGED <<minuteCallCount, apiCreditsDaily, windowRequests, failuresLeft>>
  /\ UNCHANGED <<evars, ovars, rvars, svars, mvars, kvars, lvars, tvars, cvars, fvars, wvars>>

CallStep(p) ==
  \/ RateWaitOver(p) \/ Respond(p) \/ LimitErrorOver(p) \/ Http429Over(p)
  \/ TimeoutOver(p) \/ NextSymbol(p)

NextApi == ApiClock \/ \E p \in Pollers : Poll(p) \/ CallStep(p)

SpecApi == InitApi /\ [][NextApi]_vars

\* one poller alone, every sleep and every request coming to an end
InitCall ==
  /\ apiOthersIdle
  /\ minuteCallCount = 0 /\ lastMinuteReset = 0 /\ apiCreditsDaily = 0
  /\ windowRequests = 0 /\ failuresLeft = CallFailures
  /\ pollers = [p \in {"5min"} |-> IdlePoller]

NextCall == NextApi

SpecCall ==
  /\ InitCall /\ [][NextCall]_vars
  /\ WF_vars(ApiClock) /\ \A p \in Pollers : WF_vars(CallStep(p))

-----------------------------------------------------------------------------
(* All of the above as one system.                                         *)

Init == InitEngine \/ InitOutcome \/ InitReplay \/ InitPair \/ InitLevels \/ InitMomentum \/ InitStore \/ InitLive \/ InitTiming \/ InitConfig \/ InitFetch \/ InitPersist \/ InitMove \/ InitRecord \/ InitTracker \/ InitApi \/ InitCall

Next == NextEngine \/ NextOutcome \/ NextReplay \/ NextPair \/ NextLevels \/ NextMomentum \/ NextStore \/ NextLive \/ NextTiming \/ NextConfig \/ NextFetch \/ NextPersist \/ NextMove \/ NextRecord \/ NextTracker \/ NextApi

Spec == Init /\ [][Next]_vars

-----------------------------------------------------------------------------
(* Properties of one generateSignal call (SpecEngine).                     *)

\* C1: every result whose action is BUY or SELL has confidence >= 40 and
\* riskReward >= the configured minRR.
C1_EmittedMeetsFloors ==
  (epc = "done" /\ esignal.action \in {"BUY", "SELL"}) =>
     (esignal.confidence >= 40 /\ esignal.riskReward >= eself.minRR)

\* C1 witness: a BUY against a weak bearish trend (confidence halved) that is
\* still emitted.
C1_PenalisedBuyEmitted ==
  /\ epc = "done" /\ esignal.action = "BUY"
  /\ ectx.trend = "BEARISH" /\ esignal.confidence < 50

\* The minimum-ATR guard of fix-slguard.cjs: XAU below 2.0, BTC below 50.
minAtrOf(symbol) ==
  IF symbol \in {"XAU/USD"} THEN 2000
  ELSE IF symbol \in {"BTC/USD"} THEN 50000
  ELSE 0

\* C10: when the ATR is below the instrument's minimum-ATR floor the call
\* returns HOLD, whatever the other inputs.
C10_LowAtrHolds ==
  (epc = "done" /\ atrValueOf(eind, eind.price) < minAtrOf(esymbol)) =>
     esignal.action = "HOLD"

\* C10: the failing input, XAU/USD with ATR 0.3 and a BUY returned.
C10_LowAtrBuy ==
  /\ epc = "done" /\ esymbol = "XAU/USD" /\ eind.atr = 300
  /\ esignal.action = "BUY"

\* The ADX=0 guard of fix-slguard.cjs tests ind.adx?.adx || 0 against 0: the
\* ADX reading of the call, 0 when it is absent.

\* C11: when the ADX value is exactly 0 the call returns HOLD, whatever the
\* other indicators (extreme RSI or Stochastic included).
C11_ZeroAdxHolds ==
  (epc = "done" /\ adxValueOf(eind) = 0) => esignal.action = "HOLD"

\* C11: the failing input, ADX 0 in a ranging, trendless context with the
\* Stochastic below 20, and a BUY returned.
C11_ZeroAdxBuy ==
  /\ epc = "done" /\ eind.adx.has /\ eind.adx.adx = 0
  /\ ectx.regime = "RANGING" /\ ectx.trend = "NEUTRAL"
  /\ eind.stoch.k < 20 /\ esignal.action = "BUY"

\* the numbers the selection rule is stated over
nBuyStrong == Len(buyStrong(eind, emom))
nBuyWeak == Len(buyWeak(eind, emom))
nBuyState == Len(buyState(eind))
nSellStrong == Len(sellStrong(eind, emom))
nSellWeak == Len(sellWeak(eind, emom))
nSellState == Len(sellState(eind))
callConflicts == conflictsOf(eind, ectx, emom, eind.price)
Blocked(dir) ==
  \E i \in 1..Len(callConflicts) : callConflicts[i].blocks \in {dir, "BOTH"}

BuySelectable ==
  /\ nBuyStrong >= 1 \/ nBuyWeak >= 2
  /\ nBuyStrong + nBuyWeak + nBuyState >= eself.minConfluence
  /\ nBuyStrong + nBuyWeak + nBuyState > nSellStrong + nSellWeak + nSellState
  /\ ~Blocked("BUY")

SellSelectable ==
  /\ nSellStrong >= 1 \/ nSellWeak >= 2
  /\ nSellStrong + nSellWeak + nSellState >= eself.minConfluence
  /\ nSellStrong + nSellWeak + nSellState > nBuyStrong + nBuyWeak + nBuyState
  /\ ~Blocked("SELL")

\* C12: the decision logic selects BUY exactly when there is 1 strong or 2 weak
\* buy events, buy events + states reach minConfluence and exceed the sell
\* total, and no conflict blocks BUY or BOTH; SELL symmetrically; else HOLD.
\* An emitted BUY or SELL has no conflict tagged for its direction or BOTH.
C12_DirectionSelection ==
  epc = "done" =>
    /\ edecision.action = "BUY" <=> BuySelectable
    /\ edecision.action = "SELL" <=> SellSelectable
    /\ edecision.action = "HOLD" <=> (~BuySelectable /\ ~SellSelectable)
    /\ esignal.action \in {"BUY", "SELL"} =>
         (esignal.action = edecision.action /\ ~Blocked(esignal.action))

\* C12 witness: buy events that qualify on every count, held back by a
\* conflict tagged BOTH.
C12_BothConflictHolds ==
  /\ epc = "done" /\ edecision.action = "HOLD"
  /\ nBuyStrong >= 1
  /\ nBuyStrong + nBuyWeak + nBuyState >= eself.minConfluence
  /\ nBuyStrong + nBuyWeak + nBuyState > nSellStrong + nSellWeak + nSellState
  /\ \E i \in 1..Len(callConflicts) : callConflicts[i].blocks = "BOTH"
  /\ \A i \in 1..Len(callConflicts) : callConflicts[i].blocks # "BUY"

Emitted == epc = "done" /\ esignal.action \in {"BUY", "SELL"}

\* price -/+ ATR x multiplier, the multiplier in tenths
stopAt(normalMul, highMul) ==
  LET mul == IF ectx.volatility = "HIGH" THEN highMul ELSE normalMul
      dist == (atrValueOf(eind, eind.price) * mul) \div 10
  IN IF esignal.action = "BUY" THEN esignal.price - dist ELSE esignal.price + dist

atrTarget ==
  LET dist == (atrValueOf(eind, eind.price) * slMulOf(ectx) * eself.minRR) \div 1000
  IN IF esignal.action = "BUY" THEN esignal.price + dist ELSE esignal.price - dist

\* C14: the take-profit of an emitted signal is the nearer to the entry of the
\* ATR target and the opposing S/R level (resistance above the price for a
\* BUY, support below it for a SELL).
C14_TakeProfitNearer ==
  Emitted =>
    esignal.takeProfit =
      IF esignal.action = "BUY"
      THEN (IF ectx.sr.resistance > esignal.price
            THEN Min2(atrTarget, ectx.sr.resistance) ELSE atrTarget)
      ELSE (IF ectx.sr.support < esignal.price
            THEN Max2(atrTarget, ectx.sr.support) ELSE atrTarget)

\* C14: the failing input, a BUY whose resistance lies beyond the ATR target
\* and whose take-profit is the resistance.
C14_TakeProfitAtFartherResistance ==
  /\ epc = "done" /\ esignal.action = "BUY"
  /\ ectx.sr.resistance > atrTarget
  /\ esignal.takeProfit = ectx.sr.resistance

Selected == epc = "done" /\ edecision.action \in {"BUY", "SELL"}

selectedStrong == IF edecision.action = "BUY" THEN nBuyStrong ELSE nSellStrong

\* C15 as stated: the confidence of a selected direction is
\* min(25 + 8 x confluenceCount, 85), plus 10 with at least 2 strong events,
\* plus 5 with exactly 1.
C15_ConfidencePlainBonus ==
  Selected =>
    edecision.confidence =
      Min2(25 + 8 * edecision.confluenceCount, 85)
        + (IF selectedStrong >= 2 THEN 10 ELSE IF selectedStrong = 1 THEN 5 ELSE 0)

\* C15 amended: the confidence of a selected direction is
\* min(25 + 8 x confluenceCount, 85), raised by 10 but to no more than 90 with
\* at least 2 strong events, raised by 5 but to no more than 88 with exactly 1.
C15_ConfidenceCappedBonus ==
  Selected =>
    edecision.confidence =
      IF selectedStrong >= 2
        THEN Min2(Min2(25 + 8 * edecision.confluenceCount, 85) + 10, 90)
      ELSE IF selectedStrong = 1
        THEN Min2(Min2(25 + 8 * edecision.confluenceCount, 85) + 5, 88)
      ELSE Min2(25 + 8 * edecision.confluenceCount, 85)

\* C15 witness: a BUY of confluence 8 or more with two strong events, its
\* confidence 90.
C15_TwoStrongAtNinety ==
  /\ epc = "done" /\ edecision.action = "BUY"
  /\ edecision.confluenceCount >= 8 /\ nBuyStrong >= 2
  /\ edecision.confidence = 90

\* C16: in the OFF_HOURS session the call returns HOLD for every candidate.
C16_OffHoursHolds ==
  (epc = "done" /\ ectx.session = "OFF_HOURS") => esignal.action = "HOLD"

\* C16: the failing input, a BUY candidate in the OFF_HOURS session, returned
\* with the confidence of the decision unchanged.
C16_OffHoursBuy ==
  /\ epc = "done" /\ ectx.session = "OFF_HOURS" /\ esignal.action = "BUY"
  /\ ectx.trend = "NEUTRAL" /\ ectx.volatility = "NORMAL"
  /\ emom.priceStructure = "NONE"
  /\ esignal.confidence = edecision.confidence

\* C17: every HOLD the call returns carries at least one reason or warning.
C17_HoldCarriesReason ==
  (epc = "done" /\ esignal.action = "HOLD") =>
     Len(esignal.reasons) + Len(esignal.warnings) >= 1

\* C17: the failing input, a reading with no event in either direction,
\* returned as a HOLD with no reason and no warning.
C17_SilentHold ==
  /\ epc = "done" /\ esignal.action = "HOLD"
  /\ nBuyStrong + nBuyWeak + nSellStrong + nSellWeak = 0
  /\ esignal.reasons = <<>> /\ esignal.warnings = <<>>

\* the reasons of each indicator source: those of its events, those of its
\* state confirmations
EventSourceNames == {"ema", "macd", "stoch", "cci", "breakout", "rsi"}

eventReasons(src) ==
  IF src = "ema" THEN {"EMA 9/21 bullish crossover", "EMA 9/21 bearish crossover"}
  ELSE IF src = "macd" THEN {"MACD bullish crossover", "MACD bearish crossover"}
  ELSE IF src = "stoch"
    THEN {"Stochastic bullish crossover (oversold)",
          "Stochastic bearish crossover (overbought)",
          "Stoch bullish crossover (persistent oversold - downgraded)",
          "Stoch bearish crossover (persistent overbought - downgraded)"}
  ELSE IF src = "cci" THEN {"CCI crossing above -100", "CCI crossing below 100"}
  ELSE IF src = "breakout" THEN {"Breakout above recent high", "Breakdown below recent low"}
  ELSE {"RSI exiting oversold", "RSI exiting overbought"}

stateReasons(src) ==
  IF src = "ema" THEN {"EMA bullish alignment (9>21>50)", "EMA bearish alignment (9<21<50)"}
  ELSE IF src = "macd"
    THEN {"MACD bullish", "MACD momentum building", "MACD bearish", "MACD sell momentum"}
  ELSE IF src = "stoch" THEN {"Stochastic oversold", "Stochastic overbought"}
  ELSE IF src = "rsi"
    THEN {"RSI oversold", "RSI rising from low", "RSI overbought", "RSI falling from high"}
  ELSE {}

Members(s) == { s[i] : i \in 1..Len(s) }

\* C18: when an event fired from a source, no state confirmation of that
\* source is listed for either direction, and an emitted signal's reasons
\* (which its confluence count counts) hold no event and state of one source.
C18_NoDoubleCount ==
  epc = "done" =>
    \A src \in EventSourceNames :
      /\ src \in eventSources(eind) =>
           (Members(buyState(eind)) \cup Members(sellState(eind)))
              \cap stateReasons(src) = {}
      /\ esignal.action \in {"BUY", "SELL"} =>
           ~ /\ Members(esignal.reasons) \cap eventReasons(src) # {}
             /\ Members(esignal.reasons) \cap stateReasons(src) # {}

\* C18: the failing input, RSI 32 after 29: a BUY whose reasons count the RSI
\* event and both RSI states.
C18_RsiCountedThrice ==
  /\ epc = "done" /\ esignal.action = "BUY"
  /\ {"RSI exiting oversold", "RSI oversold", "RSI rising from low"}
        \subseteq Members(esignal.reasons)
  /\ esignal.confluenceCount = Len(edecision.reasons)

-----------------------------------------------------------------------------
(* Properties of outcome resolution (SpecOutcome).                         *)

\* the candles that follow the signal's candle
Forward == SubSeq(ocandles, osignalIndex + 2, Len(ocandles))

Touches(j) ==
  \/ tpHit(osignal.action, Forward[j], osignal.takeProfit)
  \/ slHit(osignal.action, Forward[j], osignal.stopLoss)

ScanDone == opc = "done" /\ ofn \in {"simulateOutcome", "resolveOutcome"}

\* C7: the 48 candles after the signal's candle (or all that remain) are
\* examined: a first touch at forward candle j <= 48 resolves as WIN or LOSS
\* with candlesHeld = j, and EXPIRED is returned only when none of them
\* touches either level.
C7_FortyEightExamined ==
  ScanDone =>
    LET n == Min2(48, Len(Forward))
    IN /\ \A j \in 1..n :
            (Touches(j) /\ \A k \in 1..(j - 1) : ~Touches(k)) =>
               (oresult.outcome \in {"WIN", "LOSS"} /\ oresult.candlesHeld = j)
       /\ oresult.outcome = "EXPIRED" => \A j \in 1..n : ~Touches(j)

\* C7: the failing input, a first touch at the 48th forward candle that
\* simulateOutcome reports as EXPIRED after 47 candles.
C7_TouchAt48Expired ==
  /\ opc = "done" /\ ofn = "simulateOutcome"
  /\ Len(Forward) >= 48 /\ Touches(48) /\ \A k \in 1..47 : ~Touches(k)
  /\ oresult.outcome = "EXPIRED" /\ oresult.candlesHeld = 47

\* C8: first touch in candle order.  WIN exits at takeProfit on a candle
\* that touches take-profit, LOSS exits at stopLoss on a candle that touches
\* stop-loss and not take-profit, in both cases no earlier candle touched a
\* level and candlesHeld is that candle's 1-based position; EXPIRED means no
\* examined candle touched; a candle touching both levels is a WIN.
C8_FirstTouch ==
  /\ ScanDone =>
       /\ oresult.outcome = "WIN" =>
            /\ oresult.candlesHeld \in 1..Len(Forward)
            /\ tpHit(osignal.action, Forward[oresult.candlesHeld], osignal.takeProfit)
            /\ \A k \in 1..(oresult.candlesHeld - 1) : ~Touches(k)
            /\ oresult.exitPrice = osignal.takeProfit
       /\ oresult.outcome = "LOSS" =>
            /\ oresult.candlesHeld \in 1..Len(Forward)
            /\ slHit(osignal.action, Forward[oresult.candlesHeld], osignal.stopLoss)
            /\ ~tpHit(osignal.action, Forward[oresult.candlesHeld], osignal.takeProfit)
            /\ \A k \in 1..(oresult.candlesHeld - 1) : ~Touches(k)
            /\ oresult.exitPrice = osignal.stopLoss
       /\ oresult.outcome = "EXPIRED" =>
            \A k \in 1..oresult.candlesHeld : ~Touches(k)
       /\ oresult.outcome \in {"WIN", "LOSS", "EXPIRED", "NO_DATA"}
  /\ (opc = "done" /\ ofn = "_checkSignalResult") =>
       /\ tpHit(osignal.action, Forward[1], osignal.takeProfit) =>
            (~oresult.isNull /\ oresult.outcome = "WIN"
               /\ oresult.exitPrice = osignal.takeProfit)
       /\ (slHit(osignal.action, Forward[1], osignal.stopLoss)
             /\ ~tpHit(osignal.action, Forward[1], osignal.takeProfit)) =>
            (~oresult.isNull /\ oresult.outcome = "LOSS"
               /\ oresult.exitPrice = osignal.stopLoss)
       /\ ~Touches(1) => oresult.isNull

\* C8 witness: stop-loss touched at the third candle, take-profit at the
\* fourth, resolved as LOSS held 3.
C8_LossBeforeBoth ==
  /\ opc = "done" /\ ofn = "simulateOutcome"
  /\ oresult.outcome = "LOSS" /\ oresult.candlesHeld = 3
  /\ Len(Forward) >= 4
  /\ tpHit(osignal.action, Forward[4], osignal.takeProfit)

-----------------------------------------------------------------------------
(* Properties of one replay (SpecReplay).                                  *)

Replaying == runA.pc \in {"loop", "done"}

\* the iteration just made called analyze and got a BUY or SELL at or above
\* the acceptance threshold
Qualified(run, action) ==
  /\ run.analysed /\ ~run.signal.isNull
  /\ run.signal.action = action /\ run.signal.confidence >= 60

\* C4: any two recorded signals are at least 15 minutes of bar time apart.
C4_CooldownApart ==
  Replaying =>
    \A a, b \in 1..Len(runA.results) :
      a < b => runA.results[b].timestamp - runA.results[a].timestamp >= 15

\* C4 witness: a qualifying BUY on the bar 3 minutes after a recorded BUY,
\* and still one record.
C4_SecondBuySuppressed ==
  /\ Replaying /\ Qualified(runA, "BUY")
  /\ Len(runA.results) = 1 /\ runA.results[1].action = "BUY"
  /\ runA.currentCandleTime - runA.results[1].timestamp = 3

\* C5: any three recorded signals of the same direction span more than 3
\* hours of bar time.
C5_ClusterCap ==
  Replaying =>
    \A a, b, c \in 1..Len(runA.results) :
      (a < b /\ b < c /\ runA.results[a].action = runA.results[b].action
         /\ runA.results[b].action = runA.results[c].action)
        => runA.results[c].timestamp - runA.results[a].timestamp > 180

\* C5 witness: two recorded BUYs, and a qualifying BUY exactly 3 hours after
\* the first that is not recorded.
C5_ThirdBuySuppressed ==
  /\ Replaying /\ Qualified(runA, "BUY")
  /\ Len(runA.results) = 2
  /\ runA.results[1].action = "BUY" /\ runA.results[2].action = "BUY"
  /\ runA.currentCandleTime - runA.results[1].timestamp = 180
  /\ runA.currentCandleTime - runA.results[2].timestamp >= 15

\* C6: at every analysis call, every 15min and 1h bar handed to the engine so
\* far has a timestamp not after the entry bar's.
C6_NoFutureBarHanded ==
  (Replaying /\ runA.analysed) =>
    /\ \A k \in 1..Len(runA.handed15m) :
         runA.handed15m[k].timestamp <= runA.currentCandleTime
    /\ \A k \in 1..Len(runA.handed1h) :
         runA.handed1h[k].timestamp <= runA.currentCandleTime

\* C6 witness: an analysis call past the first, the last 15min and 1h bars
\* handed over carrying the entry bar's own timestamp.
C6_FedUpToEntryBar ==
  /\ Replaying /\ runA.analysed /\ runA.i > warmupCandles + 1
  /\ Len(runA.handed15m) > 0 /\ Len(runA.handed1h) > 0
  /\ runA.handed15m[Len(runA.handed15m)].timestamp = runA.currentCandleTime
  /\ runA.handed1h[Len(runA.handed1h)].timestamp = runA.currentCandleTime

\* hour of day of a bar timestamp (minutes)
barHour(ts) == (ts \div 60) % 24

\* C9: the session assigned at an analysis call is the band of the hour of
\* day of the window's last bar.
C9_SessionOfLastBar ==
  (Replaying /\ runA.analysed /\ ~runA.signal.isNull) =>
    runA.signal.context.session =
      sessionOfHour(barHour(runA.candleStore[Len(runA.candleStore)].timestamp))

\* C9: the failing input, a bar of the London morning analysed while the
\* wall clock reads 03:00 and classified ASIAN.
C9_LondonBarAsian ==
  /\ Replaying /\ runA.analysed /\ ~runA.signal.isNull
  /\ barHour(runA.currentCandleTime) = 9 /\ nowA = 3
  /\ runA.signal.context.session = "ASIAN"

-----------------------------------------------------------------------------
(* Properties of two replays (SpecPair).                                   *)

BothAnalysed ==
  /\ runA.pc \in {"loop", "done"} /\ runB.pc \in {"loop", "done"}
  /\ runA.analysed /\ runB.analysed /\ runA.i = runB.i

UpTo(series, ts) == SelectSeq(series, LAMBDA c : c.timestamp <= ts)

\* the two runs' series agree on the 5min bars of index <= j and on the
\* 15min and 1h bars not after that bar
AgreeUpTo(j) ==
  /\ Len(runA.candles5m) > j /\ Len(runB.candles5m) > j
  /\ SubSeq(runA.candles5m, 1, j + 1) = SubSeq(runB.candles5m, 1, j + 1)
  /\ UpTo(runA.candles15m, runA.candles5m[j + 1].timestamp)
       = UpTo(runB.candles15m, runA.candles5m[j + 1].timestamp)
  /\ UpTo(runA.candles1h, runA.candles5m[j + 1].timestamp)
       = UpTo(runB.candles1h, runA.candles5m[j + 1].timestamp)

SameSeries ==
  /\ runA.candles5m = runB.candles5m /\ runA.candles15m = runB.candles15m
  /\ runA.candles1h = runB.candles1h

\* C2: two replays, read at the same wall-clock hour, whose series agree on
\* every bar up to the entry bar of index i get the same signal from analyze
\* at i, whatever the later bars are on any timeframe.
C2_Causality ==
  (BothAnalysed /\ nowA = nowB /\ AgreeUpTo(runA.i - 1)) =>
     runA.signal = runB.signal

\* C2 witness: the series differ after the entry bar, and both runs got the
\* same BUY there.
C2_SameBuyDespiteFuture ==
  /\ BothAnalysed /\ nowA = nowB /\ AgreeUpTo(runA.i - 1) /\ ~SameSeries
  /\ runA.signal.action = "BUY" /\ runB.signal.action = "BUY"

\* C3: two replays of the same series with the same configuration end with
\* identical records, whatever wall-clock hour each one runs at.
C3_SameRecords ==
  (runA.pc = "done" /\ runB.pc = "done" /\ SameSeries /\ runA.self = runB.self) =>
     runA.results = runB.results

\* C3: the failing input, the same series replayed at 09:00 and at 03:00,
\* the same bar recorded with different confidences.
C3_ConfidenceDiffers ==
  /\ runA.pc = "done" /\ runB.pc = "done" /\ SameSeries /\ nowA = 9 /\ nowB = 3
  /\ Len(runA.results) > 0 /\ Len(runB.results) > 0
  /\ runA.results[1].timestamp = runB.results[1].timestamp
  /\ runA.results[1].confidence # runB.results[1].confidence

-----------------------------------------------------------------------------
(* Properties of SRDetector (SpecLevels).                                  *)

lastClose == scloses[Len(scloses)]

\* C19: in what findSR returns, when nearestSupport and nearestResistance are
\* both non-null, nearestSupport.price < current price <
\* nearestResistance.price, and every listed support is strictly below and
\* every listed resistance strictly above the current price.
C19_LevelsEitherSide ==
  spc = "found" =>
    /\ (sresult.nearestSupport.has /\ sresult.nearestResistance.has) =>
          /\ sresult.nearestSupport.level.price < lastClose
          /\ lastClose < sresult.nearestResistance.level.price
    /\ \A k \in 1..Len(sresult.supports) : sresult.supports[k].price < lastClose
    /\ \A k \in 1..Len(sresult.resistances) : sresult.resistances[k].price > lastClose

\* C19 witness: findSR returned a nearest support and a nearest resistance,
\* and one of its levels is exactly at the current price.
C19_LevelAtPrice ==
  /\ spc = "found"
  /\ sresult.nearestSupport.has /\ sresult.nearestResistance.has
  /\ \E k \in 1..Len(sresult.allLevels) : sresult.allLevels[k].price = lastClose

pricesOf(clusters) == { clusters[k].price : k \in 1..Len(clusters) }

\* C20: clusterLevels applied, with the same ATR, to the prices of the
\* clusters clusterLevels produced gives exactly the same set of prices, each
\* alone in its own cluster.
C20_ClusteringIdempotent ==
  spc = "reclustered" =>
    /\ pricesOf(sagain) = pricesOf(sclusters)
    /\ \A k \in 1..Len(sagain) : sagain[k].touchCount = 1

\* C20 witness: the first clustering merged swings of different prices into
\* one of several clusters, two of them less than one ATR apart, and the
\* second clustering has run.
C20_MergedThenReclustered ==
  /\ spc = "reclustered"
  /\ Len(sclusters) >= 2
  /\ \E k \in 1..Len(sclusters) :
       /\ sclusters[k].touchCount >= 2
       /\ sclusters[k].swings[1].price # sclusters[k].swings[Len(sclusters[k].swings)].price
  /\ \E k \in 1..(Len(sclusters) - 1) : sclusters[k + 1].price - sclusters[k].price < satr

-----------------------------------------------------------------------------
(* Properties of analyzeMomentum (SpecMomentum).                           *)

\* the last four readings of a history, when it has four
LastFour(hist) == (Len(hist) - 3)..Len(hist)

LastFourAbove(readings, level) ==
  Len(readings) >= 4 /\ \A i \in LastFour(readings) : readings[i] > level

LastFourBelow(readings, level) ==
  Len(readings) >= 4 /\ \A i \in LastFour(readings) : readings[i] < level

percentK == [i \in 1..Len(mstochHistory) |-> mstochHistory[i].k]

\* C21: stochPersistence is OVERBOUGHT_PERSISTENT iff the last 4 %K are all
\* above 75 and OVERSOLD_PERSISTENT iff they are all below 25; rsiPersistence
\* likewise at 60 and 40; three extreme readings and one that is not leave
\* NONE.
C21_PersistenceNeedsFour ==
  mpc = "done" =>
    /\ mmomentum.stochPersistence = "OVERBOUGHT_PERSISTENT"
          <=> LastFourAbove(percentK, 75)
    /\ mmomentum.stochPersistence = "OVERSOLD_PERSISTENT"
          <=> LastFourBelow(percentK, 25)
    /\ mmomentum.rsiPersistence = "HIGH_PERSISTENT"
          <=> LastFourAbove(mrsiHistory, 60)
    /\ mmomentum.rsiPersistence = "LOW_PERSISTENT"
          <=> LastFourBelow(mrsiHistory, 40)
    /\ mmomentum.stochPersistence \in {"OVERBOUGHT_PERSISTENT", "OVERSOLD_PERSISTENT", "NONE"}
    /\ mmomentum.rsiPersistence \in {"HIGH_PERSISTENT", "LOW_PERSISTENT", "NONE"}

\* C21 witness: the last three %K are above 75, the one before them is
\* exactly 75, and no persistence is reported.
C21_ThreeExtremeOneNot ==
  /\ mpc = "done"
  /\ Len(mstochHistory) >= 4
  /\ \A i \in (Len(mstochHistory) - 2)..Len(mstochHistory) : mstochHistory[i].k > 75
  /\ mstochHistory[Len(mstochHistory) - 3].k = 75
  /\ mmomentum.stochPersistence = "NONE"

-----------------------------------------------------------------------------
(* Properties of the candle store (SpecStore).                             *)

WindowBefore == kbefore[kop.symbol]
WindowAfter == kstore[kop.symbol]

ReplacesLast ==
  Len(WindowBefore) > 0 /\ WindowBefore[Len(WindowBefore)].timestamp = kop.candle.timestamp

C23_ShortWindowNoSignal ==
  (kop.op = "analyze" /\ Len(WindowBefore) < 110) => kop.result = NoSignal

\* C23: the failing input, analyze on a window of 60 bars returning a BUY.
C23_BuyOnSixtyBars ==
  /\ kop.op = "analyze" /\ Len(WindowBefore) = 60
  /\ kop.result # NoSignal /\ kop.result.action = "BUY"

\* C27: analyze(symbol) leaves the window of every symbol as it was (length,
\* order and bars), and addCandle for one symbol leaves the windows of all
\* other symbols as they were.
C27_WindowsReadOnly ==
  /\ kop.op = "analyze" => kstore = kbefore
  /\ kop.op = "add" =>
       \A symbol \in DOMAIN kstore : symbol # kop.symbol => kstore[symbol] = kbefore[symbol]

\* C27 witness: analyze returned a signal for a window of 300 bars while the
\* other symbol had a window too.
C27_AnalysedFullWindow ==
  /\ kop.op = "analyze" /\ kop.result # NoSignal
  /\ Len(WindowBefore) = 300
  /\ \E symbol \in DOMAIN kstore : symbol # kop.symbol /\ Len(kstore[symbol]) > 0

-----------------------------------------------------------------------------
(* Properties of the live agent (SpecLive).                                *)

\* C24: every analysis call runs on a window whose last bar is the bar that
\* triggered it, and the window is not written between that bar's addCandle
\* and the end of the analysis, whatever sends are pending and whenever the
\* polls deliver.
C24_AnalysisSeesTrigger ==
  \A i \in 1..Len(agent.analyses) :
    /\ agent.analyses[i].last = agent.analyses[i].candle
    /\ agent.analyses[i].analysedAt = agent.analyses[i].addedAt

\* C24 witness: a second candle event was added and analysed while the
\* processCandle call of the first still waited for its send.
C24_AnalysedWhileSending ==
  /\ Len(agent.calls) >= 2 /\ Len(agent.analyses) >= 2
  /\ agent.calls[1].pc = "log"
  /\ agent.calls[2].pc \in {"log", "done"}
  /\ agent.calls[1].candle # agent.calls[2].candle

\* C25: no two signals of the same direction are sent less than the cooldown
\* (15 minutes) apart.
C25_LiveCooldownApart ==
  \A i, j \in 1..Len(agent.sent) :
    (i < j /\ agent.sent[i].action = agent.sent[j].action) =>
       agent.sent[j].time - agent.sent[i].time >= 15

\* C25: the failing input, two candle events of one poll both analysed as BUY:
\* the second BUY is sent while the first send is pending.
C25_TwoBuysInOnePoll ==
  /\ Len(agent.sent) >= 2
  /\ agent.sent[1].action = "BUY" /\ agent.sent[2].action = "BUY"
  /\ agent.sent[1].time = agent.sent[2].time
  /\ agent.calls[1].pc = "log" /\ ~agent.lastSignals.has

-----------------------------------------------------------------------------
(* The hard block against a strong local trend (SpecEngine).               *)

\* C30: no BUY is returned when the local trend is BEARISH with a strength
\* above 30 and no SELL when it is BULLISH with a strength above 30; a BUY or
\* SELL candidate is returned as a HOLD whose only warning is 'BLOCKED:
\* Strong bearish trend' or 'BLOCKED: Strong bullish trend'.
C30_StrongTrendBlocks ==
  epc = "done" =>
    /\ (ectx.trend = "BEARISH" /\ ectx.trendStrength > 30) =>
         /\ esignal.action # "BUY"
         /\ edecision.action = "BUY" =>
              /\ esignal.action = "HOLD"
              /\ esignal.warnings = <<"BLOCKED: Strong bearish trend">>
    /\ (ectx.trend = "BULLISH" /\ ectx.trendStrength > 30) =>
         /\ esignal.action # "SELL"
         /\ edecision.action = "SELL" =>
              /\ esignal.action = "HOLD"
              /\ esignal.warnings = <<"BLOCKED: Strong bullish trend">>

\* C30: a BUY candidate of at least 60 confidence in a BEARISH trend of
\* strength 35, returned as a HOLD with the block's warning.
C30_BuyBlockedAtThirtyFive ==
  /\ epc = "done" /\ edecision.action = "BUY" /\ edecision.confidence >= 60
  /\ ectx.trend = "BEARISH" /\ ectx.trendStrength = 35
  /\ esignal.action = "HOLD"
  /\ esignal.warnings = <<"BLOCKED: Strong bearish trend">>

\* C33: a returned BUY in a BEARISH trend, or SELL in a BULLISH trend, has a
\* confidence below 60, so it does not meet the acceptance threshold of the
\* live dispatcher or of the backtest.
C33_AgainstTrendBelowSixty ==
  (epc = "done" /\ esignal.action # "HOLD"
     /\ \/ esignal.action = "BUY" /\ ectx.trend = "BEARISH"
        \/ esignal.action = "SELL" /\ ectx.trend = "BULLISH") =>
    /\ esignal.confidence < 60
    /\ ~(esignal.confidence >= minConfidence)
    /\ ~(esignal.confidence >= MIN_CONFIDENCE)

\* C33: a BUY of base confidence 90 in a BEARISH trend of strength 28, with a
\* bullish price structure in the London/NY overlap: returned at 55.
C33_BuyAgainstTrendAtFiftyFive ==
  /\ epc = "done" /\ edecision.action = "BUY" /\ edecision.confidence = 90
  /\ ectx.trend = "BEARISH" /\ ectx.trendStrength = 28
  /\ ectx.session = "OVERLAP" /\ emom.priceStructure = "BULLISH_STRUCTURE"
  /\ esignal.action = "BUY" /\ esignal.confidence = 55

\* C34: every returned BUY has stopLoss < price < takeProfit and every
\* returned SELL has takeProfit < price < stopLoss.
C34_StopsBracketPrice ==
  (epc = "done" /\ esignal.action # "HOLD") =>
    IF esignal.action = "BUY"
    THEN esignal.stopLoss < esignal.price /\ esignal.price < esignal.takeProfit
    ELSE esignal.takeProfit < esignal.price /\ esignal.price < esignal.stopLoss

\* C34: a SELL returned when the library's ATR is 0: the stop is 2 x 1% of
\* the price above the price, the target below it.
C34_SellOnFallbackAtr ==
  /\ epc = "done" /\ esignal.action = "SELL" /\ eind.atr = 0
  /\ esignal.stopLoss = esignal.price + 2 * (esignal.price \div 100)
  /\ esignal.takeProfit < esignal.price

\* C35: during a replay no 15min bar and no 1h bar is handed to the engine
\* twice: the bars pre-loaded up to the warm-up time are not handed over
\* again by the feed.
C35_HandedOnce ==
  runA.pc # "idle" =>
    /\ \A a, b \in 1..Len(runA.handed15m) :
         a < b => runA.handed15m[a].timestamp # runA.handed15m[b].timestamp
    /\ \A a, b \in 1..Len(runA.handed1h) :
         a < b => runA.handed1h[a].timestamp # runA.handed1h[b].timestamp

\* C35: the failing input, a 15min series whose first bar opens before the
\* warm-up time: pre-loaded, and handed again by the feed of the candle of
\* that time, before any analysis.
C35_PreloadedFedAgain ==
  /\ runA.pc = "loop" /\ runA.i <= warmupCandles
  /\ runA.candles15m # <<>>
  /\ runA.candles15m[1].timestamp <= warmupTimeOf(runA.candles5m)
  /\ Len(preloadOf(runA.candles15m, warmupTimeOf(runA.candles5m))) < Len(runA.handed15m)
  /\ \E k \in 2..Len(runA.handed15m) : runA.handed15m[k] = runA.handed15m[1]

-----------------------------------------------------------------------------
(* Properties of the two timing filters (SpecTiming).                      *)

Range(s) == { s[k] : k \in 1..Len(s) }

\* C26: for one time-ordered sequence of qualifying signals, the set the live
\* dispatcher's cooldown accepts equals the set the backtest's cooldown and
\* cluster cap record.
C26_SameTimingFilter ==
  tpc = "both" => Range(tlive) = Range(tbacktest)

\* C26: the failing input, a BUY and a SELL five minutes later: the live
\* dispatcher accepts both, the backtest records the BUY only.
C26_OppositeWithinCooldown ==
  /\ tpc = "both"
  /\ Len(tsignals) = 2
  /\ tsignals[1].action = "BUY" /\ tsignals[2].action = "SELL"
  /\ tsignals[2].timestamp - tsignals[1].timestamp = 5
  /\ tlive = tsignals /\ tbacktest = <<tsignals[1]>>

-----------------------------------------------------------------------------
(* Properties of the configuration (SpecConfig).                           *)

\* a field that was given and is not a positive number
invalidField(v) == v.t = "NaN" \/ (v.t = "number" /\ v.n <= 0)

\* an argument that was given and is not the text of a positive number
invalidArg(arg) ==
  /\ arg.given
  /\ \/ \E i \in 1..Len(arg.text) : ~isDigit(arg.text[i])
     \/ invalidField(parseInt(arg.text))

\* C28: an engine is never constructed, and a backtest never started, from an
\* invalid configuration value: the construction fails instead.
C28_InvalidConfigFails ==
  /\ cpc = "constructed" =>
       ~invalidField(cconfig.minConfluence) /\ ~invalidField(cconfig.minRR)
  /\ cpc \in {"started", "replayed"} =>
       ~invalidArg(cargv.confluence) /\ ~invalidArg(cargv.confidence)

\* C28: the failing input, --confluence -2: the backtest starts and the
\* engine analyses with a minimum confluence of -2.
C28_NegativeCarried ==
  /\ cpc = "started"
  /\ cargv.confluence = Arg(<<"-", "2">>)
  /\ cself.minConfluence = 0 - 2

-----------------------------------------------------------------------------
(* Properties of a whole backtest (SpecFetch).                             *)

\* C29: when the 5min fetch fails the backtest has exited with no bar
\* replayed and no report written; when the 15min fetch fails the backtest
\* does not exit and every record's mtfAction is NEUTRAL, and when the 1h
\* fetch fails it does not exit and every record's macroAction is NEUTRAL.
C29_FetchFailures ==
  /\ ffetch.m5 = "failed" => fpc = "exit" /\ fexit = 1 /\ frun = NoRun /\ ~freport
  /\ ffetch.m15 = "failed" =>
       /\ fexit = 0 /\ fpc # "exit"
       /\ frun # NoRun =>
            \A k \in 1..Len(frun.results) : frun.results[k].mtfAction = "NEUTRAL"
  /\ ffetch.h1 = "failed" =>
       /\ fexit = 0 /\ fpc # "exit"
       /\ \A k \in 1..Len(frun.results) : frun.results[k].macroAction = "NEUTRAL"

\* C29: the 15min fetch failed and the 1h fetch did not: the replay ran to
\* its end, the report was written, and a record was boosted by the 1h gate.
C29_DegradedRunCompleted ==
  /\ ffetch.m15 = "failed" /\ ffetch.h1 = "ok"
  /\ fpc = "done" /\ freport /\ frun.i = Len(frun.candles5m)
  /\ \E k \in 1..Len(frun.results) :
       frun.results[k].macroAction = "BOOSTED" /\ frun.results[k].mtfAction = "NEUTRAL"

-----------------------------------------------------------------------------
(* Properties of the engine on a series of Stochastic readings             *)
(* (SpecPersist).                                                          *)

Demoted ==
  { "Stoch bullish crossover (persistent oversold - downgraded)",
    "Stoch bearish crossover (persistent overbought - downgraded)" }

\* C31: when the last 4 %K readings, the current one included, are all above
\* 75 or all below 25, the call returns HOLD and both BUY and SELL carry a
\* blocking conflict; no returned BUY or SELL lists a demoted crossover.
C31_PersistenceHolds ==
  epc = "done" =>
    /\ (\/ LastFourAbove(mapField(eind.stochHistory, "k"), 75)
        \/ LastFourBelow(mapField(eind.stochHistory, "k"), 25)) =>
         esignal.action = "HOLD" /\ Blocked("BUY") /\ Blocked("SELL")
    /\ esignal.action # "HOLD" => Members(esignal.reasons) \cap Demoted = {}

\* C31: a bearish Stochastic crossover after four readings above 75, with
\* the bearish EMA and MACD crossovers: the crossover is a weak SELL event
\* and the call returns HOLD.
C31_DemotedCrossoverHeld ==
  /\ epc = "done"
  /\ emom.stochPersistence = "OVERBOUGHT_PERSISTENT" /\ stochBearCross(eind)
  /\ emaBearCross(eind) /\ macdBearCross(eind)
  /\ Members(sellWeak(eind, emom)) \cap Demoted # {}
  /\ esignal.action = "HOLD"

-----------------------------------------------------------------------------
(* Properties of the engine on a window with a move (SpecMove).            *)

HasConflict(dir, reason) ==
  \E i \in 1..Len(callConflicts) :
    callConflicts[i].blocks = dir /\ callConflicts[i].reason = reason

\* C32: whenever isMomentumMove is true exactly one of the two large-move
\* conflicts is raised: the one blocking SELL on an up-move or the one
\* blocking BUY on a down-move.
C32_LargeMoveOneSide ==
  (epc = "done" /\ emom.isMomentumMove) =>
     (HasConflict("SELL", "Large momentum move UP")
        # HasConflict("BUY", "Large momentum move DOWN"))

\* C32: the failing input, a rise of 6 in one candle followed by a fall of 3
\* in the last one: the price is above the close of nine candles ago and
\* below the EMA 9, the move is above 3 ATR, and both directions carry the
\* large-move conflict.
C32_BothSidesBlocked ==
  /\ epc = "done" /\ emom.isMomentumMove
  /\ eind.price = RefPrice + 3000
  /\ eind.recentCloses[Len(eind.recentCloses) - 8] = RefPrice
  /\ eind.price < eind.ema9
  /\ HasConflict("SELL", "Large momentum move UP")
  /\ HasConflict("BUY", "Large momentum move DOWN")

-----------------------------------------------------------------------------
(* Properties of SpecRecord.                                               *)

Recorded == opc = "done" /\ ofn = "runBacktest"

rewardToRisk(r) ==
  Fixed2(Abs(r.takeProfit - r.entryPrice), Abs(r.entryPrice - r.stopLoss))

\* C36: every record's pnlR agrees with its outcome: LOSS gives -1, WIN
\* gives the reward-to-risk ratio of the signal, which is at least minRR,
\* and EXPIRED gives a pnlR between -1 and that ratio (forward bars close
\* within their range); in hundredths
C36_PnlAgreesWithOutcome ==
  Recorded =>
    /\ oresult.outcome \in {"WIN", "LOSS", "EXPIRED"}
    /\ oresult.outcome = "LOSS" => oresult.pnlR = 0 - 100
    /\ oresult.outcome = "WIN" =>
         /\ oresult.pnlR = rewardToRisk(oresult)
         /\ oresult.pnlR >= eself.minRR
    /\ oresult.outcome = "EXPIRED" =>
         /\ 0 - 100 <= oresult.pnlR
         /\ oresult.pnlR <= rewardToRisk(oresult)

\* a SELL expired on a bar that closed one tick under its stop loss
C36_ExpiredNearStop ==
  /\ Recorded /\ oresult.outcome = "EXPIRED" /\ oresult.action = "SELL"
  /\ oresult.candlesHeld = RecordFwd
  /\ oresult.exitPrice = oresult.stopLoss - 1
  /\ oresult.pnlR = 0 - 100

-----------------------------------------------------------------------------
(* Further properties of SpecLevels.                                       *)

apartBeyondTolerance(clusters, atr) ==
  \A i \in 1..Len(clusters), j \in 1..Len(clusters) :
    i # j => 2 * Abs(clusters[i].price - clusters[j].price) > atr

\* C37: in the output of clusterLevels any two distinct clusters have
\* prices more than 0.5 x ATR apart, whatever the swings
C37_ClustersApart ==
  /\ spc \in {"found", "clustered", "reclustered"} => apartBeyondTolerance(sclusters, satr)
  /\ spc = "reclustered" => apartBeyondTolerance(sagain, satr)

\* three swings merged at a mean of 17 units and the next cluster 13 units
\* above it, for a tolerance of 10 units
C37_MergedAndNextCluster ==
  /\ spc = "clustered" /\ satr = 20 * PriceUnit
  /\ Len(sclusters) = 2
  /\ sclusters[1].touchCount = 3 /\ sclusters[1].price = 17 * PriceUnit
  /\ sclusters[2].price = 30 * PriceUnit

-----------------------------------------------------------------------------
(* Properties of SpecTracker.                                              *)

sameClosing(a, b) ==
  /\ a.status = b.status /\ a.closePrice = b.closePrice
  /\ a.closeTime = b.closeTime /\ a.pnlR = b.pnlR

hitBy(signal, call) == checkSignalResult(signal, call.price, call.high, call.low)

\* C38: a logged signal starts OPEN and changes status at most once, to WIN,
\* LOSS or EXPIRED; once it has, no updatePrice call changes its status,
\* closePrice, closeTime or pnlR; and a signal an update resolves as WIN or
\* LOSS is not marked EXPIRED by that update
C38_ResolvedOnce ==
  [][/\ Len(wsignals') >= Len(wsignals)
     /\ \A i \in (Len(wsignals) + 1)..Len(wsignals') : wsignals'[i].status = "OPEN"
     /\ \A i \in 1..Len(wsignals) :
          /\ wsignals[i].status # "OPEN" => sameClosing(wsignals'[i], wsignals[i])
          /\ wsignals'[i].status \in {"OPEN", "WIN", "LOSS", "EXPIRED"}
          /\ (/\ wsignals[i].status = "OPEN" /\ wlast'.op = "updatePrice"
              /\ wlast'.symbol = wsignals[i].symbol
              /\ ~hitBy(wsignals[i], wlast').isNull)
               => wsignals'[i].status = hitBy(wsignals[i], wlast').outcome]_vars

\* a signal past the expiry age was resolved as WIN by the update that
\* reached its take profit, and a later update reaching its stop loss left
\* it as it was
C38_WinPastExpiryKept ==
  \E i \in 1..Len(wsignals) :
    /\ wsignals[i].status = "WIN"
    /\ wsignals[i].closeTime.n - wsignals[i].timestamp > 60 * expiryHours
    /\ wlast.op = "updatePrice" /\ wlast.symbol = wsignals[i].symbol
    /\ ~hitBy(wsignals[i], wlast).isNull
    /\ hitBy(wsignals[i], wlast).outcome = "LOSS"

-----------------------------------------------------------------------------
(* Properties of SpecApi and SpecCall.                                     *)

\* C39: no more than minuteLimit requests are issued within one rate-limit
\* minute window, the time since lastMinuteReset was set, whatever the
\* interleaving of the pollers and their retries
C39_WithinMinuteLimit == windowRequests <= minuteLimit

\* the retry after a rate-limit error response is the eighth request of a
\* window that is a minute old, with minuteCallCount back at one
C39_EighthRequestInWindow ==
  /\ windowRequests = minuteLimit + 1 /\ minuteCallCount = 1
  /\ sinceReset(apiState) = minuteSeconds
  /\ \E p \in DOMAIN pollers :
       /\ pollers[p].pc = "request" /\ pollers[p].retries = 1
       /\ pollers[p].requests = 2

InCall(p, k) ==
  /\ p \in DOMAIN pollers /\ pollers[p].left = k
  /\ pollers[p].pc \in {"request", "rateWait", "limitError", "http429", "timeout"}

\* C40: apiCall terminates: a call issues at most maxRetries + 1 requests,
\* it retries only after a rate-limit error response, an HTTP 429 or a
\* timeout, and it comes to return the data or null
C40_CallTerminates ==
  /\ [](\A p \in DOMAIN pollers :
          /\ pollers[p].requests <= maxRetries + 1
          /\ pollers[p].lastResult \in {"none", "data", "null"})
  /\ [][\A p \in DOMAIN pollers :
          pollers'[p].retries > pollers[p].retries
            => pollers[p].pc \in {"limitError", "http429", "timeout"}]_vars
  /\ \A p \in Pollers, k \in 1..MaxSymbols : InCall(p, k) ~> ~InCall(p, k)

\* the call for the last symbol returned null after four requests
C40_NullAfterFourRequests ==
  \E p \in DOMAIN pollers :
    /\ pollers[p].pc = "idle" /\ pollers[p].lastResult = "null"
    /\ pollers[p].requests = maxRetries + 1 /\ pollers[p].retries = maxRetries

=============================================================================
